---- MODULE Spec2Model ----
(***************************************************************************)
(* A model of the per-tick core of rust-sc2: the command batching queue    *)
(* (Commander, Unit::command, Unit::toggle_autocast, Bot::get_actions),    *)
(* the classification and diff engine (Bot::update_units, update_state)    *)
(* and the enemies cache.                                                  *)
(***************************************************************************)
EXTENDS Integers, Sequences, FiniteSets, TLC

\* ------------------------------------------------------------------------
\* Bounds of the model
\* ------------------------------------------------------------------------

\* Number of Unit::command / Unit::toggle_autocast calls explored in one run.
MaxCalls == 3

\* Ticks explored.
MaxTicks == 3

\* ------------------------------------------------------------------------
\* Generic helpers
\* ------------------------------------------------------------------------

\* Number of positions of sequence s that hold x.
Count(s, x) == Cardinality({i \in DOMAIN s : s[i] = x})

\* The empty map (a function with empty domain).
EmptyMap == [x \in {} |-> 0]

\* Map m without key k.
MapRemove(m, k) == [x \in (DOMAIN m) \ {k} |-> m[x]]

\* All orderings (sequences without repetition) of the finite set S.
Orderings(S) ==
    {s \in [1..Cardinality(S) -> S] : \A i, j \in DOMAIN s : s[i] = s[j] => i = j}

\* ------------------------------------------------------------------------
\* Command batching queue
\* ------------------------------------------------------------------------

\* Decision routines that issue commands within one tick (rayon workers).
Routines == {"r1", "r2"}

\* Tags of the units the routines command.
CmdTags == {1, 2}

\* (ability, target, queue) keys of Commander.commands.
CmdKeys ==
    { <<"Attack", "None", FALSE>>,
      <<"Attack", "Pos", TRUE>> }

\* Keys of Commander.autocast.
AutocastKeys == {"Attack"}

\* One call of a routine: which map it inserts into, under which key, which tag.
Calls ==
    [kind : {"command"}, key : CmdKeys, tag : CmdTags]
        \cup [kind : {"autocast"}, key : AutocastKeys, tag : CmdTags]

NoCall == [kind |-> "none", key |-> "none", tag |-> 0]

VARIABLES
    commands,     \* Commander.commands : key -> Vec<tag>
    autocast,     \* Commander.autocast : ability -> Vec<tag>
    actions,      \* Bot.actions : Vec<Action>
    lock,         \* holder of the commander's write lock, or "free"
    pc,           \* position of each routine inside command / toggle_autocast
    call,         \* the call each routine is executing
    bucket,       \* the bucket contents a routine's push has read
    dpc,          \* position of the loop driver inside get_actions
    batchStart,   \* Len(actions) when the running get_actions started
    ncalls,       \* number of calls issued so far
    pending,      \* history: inserts completed since the last flush
    done,         \* history: every insert completed so far
    sent,         \* history: actions handed over and cleared by clear_actions
    overlap,      \* history: whether calls ran while another call / a flush was running
    game_loop,            \* state.observation.game_loop
    enemy_race,           \* Bot.enemy_race
    visibility,           \* state.observation.raw.visibility
    effects,              \* state.observation.raw.effects (scanner sweeps)
    units,                \* Bot.units : AllUnits
    stale,                \* cache entries holding an older snapshot than cached.all
    owned_tags,           \* Bot.owned_tags
    under_construction,   \* Bot.under_construction
    saved_hallucinations, \* Bot.saved_hallucinations
    available_frames,     \* Bot.available_frames (tags that have an entry)
    last_units_hits,      \* Bot.last_units_hits
    last_units_seen,      \* Bot.last_units_seen
    techlab_tags,         \* Bot.techlab_tags
    reactor_tags,         \* Bot.reactor_tags
    expansions,           \* Bot.expansions
    events,               \* the events returned by the last update_state
    emitted,              \* history: (kind, tag) of the events of earlier ticks
    presumed,             \* history: tags marked cloaked / burrowed and not released
    gone,                 \* history: tags reported dead so far
    fresh,                \* history: owned tags of the last tick that were not in owned_tags
    known,                \* history: type and build progress last reported for a tag
    verdicts,             \* history: what the cache loop of the last update_units decided
    accessed,             \* history: the last read of a unit's real speed
    abilities,            \* state.observation.abilities (ids)
    upgrades,             \* state.observation.raw.upgrades
    panic_message,        \* the message of the panic that ended the bot, or "none"
    started,              \* whether prepare_start has run, or has panicked
    all_resources,        \* the resources prepare_start clusters, in iteration order
    ramp_points,          \* the ramp cells prepare_start clusters, in iteration order
    placement_grid,       \* game_info.placement_grid: the cells that are placeable
    enemy_start,          \* Bot.enemy_start
    resource_groups,      \* history: the clusters of resources prepare_start has found
    ramp_groups,          \* history: the clusters of ramp cells prepare_start has found
    path_service,         \* how the game answers the two pathing queries of prepare_start
    pathing,              \* history: the goals of the pathing queries and the game's answers
    proto,                \* the arguments of a call of Unit::from_proto on its own
    unit,                 \* the Unit that call has returned
    minerals,             \* Bot.minerals
    vespene,              \* Bot.vespene
    supply_cap,           \* Bot.supply_cap
    supply_used,          \* Bot.supply_used
    supply_left,          \* Bot.supply_left
    spendings             \* number of prepare_step / subtract_resources calls so far

cmdVars ==
    <<commands, autocast, actions, lock, pc, call, bucket, dpc, batchStart,
      ncalls, pending, done, sent, overlap>>

tickVars ==
    <<game_loop, enemy_race, visibility, effects, units, stale, owned_tags,
      under_construction, saved_hallucinations, available_frames, last_units_hits,
      last_units_seen, techlab_tags, reactor_tags, expansions, events, emitted,
      presumed, gone, fresh, known, verdicts, accessed, abilities, upgrades,
      panic_message>>

prepVars ==
    <<started, all_resources, ramp_points, placement_grid, enemy_start,
      resource_groups, ramp_groups, path_service, pathing>>

protoVars == <<proto, unit>>

econVars == <<minerals, vespene, supply_cap, supply_used, supply_left, spendings>>

vars == <<cmdVars, tickVars, prepVars, protoVars, econVars>>

\* A write_lock that never waits for the guard of another holder.
WriteLockNeverWaits(l) == TRUE

\* Locked::write_lock blocks until no other guard is alive.
WriteLockFree(l) == l = "free"

\* The map a call inserts into.
MapOf(c) == IF c.kind = "command" THEN commands ELSE autocast

\* entry(key).or_default(): the map with an empty bucket added when key is new.
OrDefault(m, k) ==
    IF k \in DOMAIN m THEN m ELSE [x \in DOMAIN m \cup {k} |-> IF x = k THEN <<>> ELSE m[x]]

\* Vec::push of tag t on the bucket of key k whose contents were read as b.
PushTo(m, k, b, t) ==
    [x \in DOMAIN m \cup {k} |-> IF x = k THEN Append(b, t) ELSE m[x]]

\* An iteration that reads the entries without removing them.
DrainedKeepsEntries(m) == m

\* drain(): what is left in a map after get_actions has drained it.
Drained(m) == EmptyMap

\* The UnitCommand action built from one drained (key, units) entry.
UnitCommand(k, tags) ==
    [type |-> "UnitCommand", ability |-> k[1], target |-> k[2], units |-> tags, queue |-> k[3]]

\* The ToggleAutocast action built from one drained (ability, units) entry.
ToggleAutocast(a, tags) ==
    [type |-> "ToggleAutocast", ability |-> a, target |-> "None", units |-> tags, queue |-> FALSE]

\* The key an action was built from.
KeyOfAction(a) ==
    IF a.type = "UnitCommand" THEN <<a.ability, a.target, a.queue>> ELSE a.ability

\* A batch whose actions carry only the first tag of each bucket.
CommandBatchFirstTag(m, order) ==
    [i \in DOMAIN order |-> UnitCommand(order[i], <<Head(m[order[i]])>>)]

\* The actions get_actions builds from commands, in drain order `order`.
CommandBatch(m, order) == [i \in DOMAIN order |-> UnitCommand(order[i], m[order[i]])]

\* The actions get_actions builds from autocast, in drain order `order`.
AutocastBatch(m, order) == [i \in DOMAIN order |-> ToggleAutocast(order[i], m[order[i]])]

\* Whether action a was built from the map and key that call c inserts into.
ActionOfCall(a, c) ==
    /\ a.type = (IF c.kind = "command" THEN "UnitCommand" ELSE "ToggleAutocast")
    /\ KeyOfAction(a) = c.key

RECURSIVE InBatch(_, _)
\* How many times the tag of call c occurs, under c's key, in the actions of batch b.
InBatch(b, c) ==
    IF b = <<>> THEN 0
    ELSE (IF ActionOfCall(Head(b), c) THEN Count(Head(b).units, c.tag) ELSE 0)
             + InBatch(Tail(b), c)

\* How many times the tag of call c occurs in the commander's bucket for c's key.
InBucket(c) ==
    IF c.key \in DOMAIN MapOf(c) THEN Count(MapOf(c)[c.key], c.tag) ELSE 0

CmdInit ==
    /\ commands = EmptyMap
    /\ autocast = EmptyMap
    /\ actions = <<>>
    /\ lock = "free"
    /\ pc = [r \in Routines |-> "idle"]
    /\ call = [r \in Routines |-> NoCall]
    /\ bucket = [r \in Routines |-> <<>>]
    /\ dpc = "idle"
    /\ batchStart = 0
    /\ ncalls = 0
    /\ pending = [c \in Calls |-> 0]
    /\ done = [c \in Calls |-> 0]
    /\ sent = [c \in Calls |-> 0]
    /\ overlap = [calls |-> FALSE, flush |-> FALSE]

\* A routine enters Unit::command or Unit::toggle_autocast.
IssueCall(r) ==
    /\ pc[r] = "idle"
    /\ ncalls < MaxCalls
    /\ \E c \in Calls : call' = [call EXCEPT ![r] = c]
    /\ pc' = [pc EXCEPT ![r] = "lock"]
    /\ ncalls' = ncalls + 1
    /\ overlap' = [calls |-> overlap.calls \/ \E q \in Routines \ {r} : pc[q] # "idle",
                   flush |-> overlap.flush \/ dpc # "idle"]
    /\ UNCHANGED <<commands, autocast, actions, lock, bucket, dpc, batchStart,
                   pending, done, sent>>
    /\ UNCHANGED <<tickVars, prepVars, protoVars, econVars>>

\* commander.write_lock()
AcquireLock(r) ==
    /\ pc[r] = "lock"
    /\ WriteLockFree(lock)
    /\ lock' = r
    /\ pc' = [pc EXCEPT ![r] = "entry"]
    /\ UNCHANGED <<overlap, commands, autocast, actions, call, bucket, dpc, batchStart,
                   ncalls, pending, done, sent>>
    /\ UNCHANGED <<tickVars, prepVars, protoVars, econVars>>

\* .entry(key).or_default(): the bucket is created when missing and located.
Entry(r) ==
    /\ pc[r] = "entry"
    /\ LET c == call[r]
           m == OrDefault(MapOf(c), c.key)
       IN /\ IF c.kind = "command"
                THEN commands' = m /\ UNCHANGED autocast
                ELSE autocast' = m /\ UNCHANGED commands
          /\ bucket' = [bucket EXCEPT ![r] = m[c.key]]
    /\ pc' = [pc EXCEPT ![r] = "push"]
    /\ UNCHANGED <<overlap, actions, lock, call, dpc, batchStart, ncalls, pending, done, sent>>
    /\ UNCHANGED <<tickVars, prepVars, protoVars, econVars>>

\* .push(self.tag())
Push(r) ==
    /\ pc[r] = "push"
    /\ LET c == call[r]
           m == PushTo(MapOf(c), c.key, bucket[r], c.tag)
       IN /\ IF c.kind = "command"
                THEN commands' = m /\ UNCHANGED autocast
                ELSE autocast' = m /\ UNCHANGED commands
          /\ pending' = [pending EXCEPT ![c] = @ + 1]
          /\ done' = [done EXCEPT ![c] = @ + 1]
    /\ pc' = [pc EXCEPT ![r] = "unlock"]
    /\ UNCHANGED <<overlap, actions, lock, call, bucket, dpc, batchStart, ncalls, sent>>
    /\ UNCHANGED <<tickVars, prepVars, protoVars, econVars>>

\* The write guard is dropped at the end of the statement; the call returns.
ReleaseLock(r) ==
    /\ pc[r] = "unlock"
    /\ lock' = IF lock = r THEN "free" ELSE lock
    /\ pc' = [pc EXCEPT ![r] = "idle"]
    /\ call' = [call EXCEPT ![r] = NoCall]
    /\ bucket' = [bucket EXCEPT ![r] = <<>>]
    /\ UNCHANGED <<overlap, commands, autocast, actions, dpc, batchStart, ncalls, pending,
                   done, sent>>
    /\ UNCHANGED <<tickVars, prepVars, protoVars, econVars>>

\* Bot::get_actions: let mut commander = self.commander.write_lock()
GetActionsLock ==
    /\ dpc = "idle"
    /\ WriteLockFree(lock)
    /\ lock' = "driver"
    /\ dpc' = "commands"
    /\ batchStart' = Len(actions)
    /\ overlap' = [overlap EXCEPT !.flush = @ \/ \E q \in Routines : pc[q] # "idle"]
    /\ UNCHANGED <<commands, autocast, actions, pc, call, bucket, ncalls, pending,
                   done, sent>>
    /\ UNCHANGED <<tickVars, prepVars, protoVars, econVars>>

\* Bot::get_actions: actions.extend(commander.commands.drain().map(..))
GetActionsCommands ==
    /\ dpc = "commands"
    /\ \E order \in Orderings(DOMAIN commands) :
           actions' = actions \o CommandBatch(commands, order)
    /\ commands' = Drained(commands)
    /\ dpc' = "autocast"
    /\ UNCHANGED <<overlap, autocast, lock, pc, call, bucket, batchStart, ncalls, pending,
                   done, sent>>
    /\ UNCHANGED <<tickVars, prepVars, protoVars, econVars>>

\* Bot::get_actions: actions.extend(commander.autocast.drain().map(..))
GetActionsAutocast ==
    /\ dpc = "autocast"
    /\ \E order \in Orderings(DOMAIN autocast) :
           actions' = actions \o AutocastBatch(autocast, order)
    /\ autocast' = Drained(autocast)
    /\ dpc' = "return"
    /\ UNCHANGED <<overlap, commands, lock, pc, call, bucket, batchStart, ncalls, pending,
                   done, sent>>
    /\ UNCHANGED <<tickVars, prepVars, protoVars, econVars>>

\* Bot::get_actions returns: the guard is dropped.
GetActionsReturn ==
    /\ dpc = "return"
    /\ lock' = IF lock = "driver" THEN "free" ELSE lock
    /\ dpc' = "idle"
    /\ pending' = [c \in Calls |-> 0]
    /\ UNCHANGED <<overlap, commands, autocast, actions, pc, call, bucket, batchStart, ncalls,
                   done, sent>>
    /\ UNCHANGED <<tickVars, prepVars, protoVars, econVars>>

\* Bot::clear_actions, called by the loop driver once the batch was sent.
ClearActions ==
    /\ dpc = "idle"
    /\ actions # <<>>
    /\ sent' = [c \in Calls |-> sent[c] + InBatch(actions, c)]
    /\ actions' = <<>>
    /\ UNCHANGED <<overlap, commands, autocast, lock, pc, call, bucket, dpc, batchStart,
                   ncalls, pending, done>>
    /\ UNCHANGED <<tickVars, prepVars, protoVars, econVars>>

\* ------------------------------------------------------------------------
\* Entity model
\* ------------------------------------------------------------------------

\* Unit type ids that match the townhall arm of update_units.
TownhallIds ==
    {"CommandCenter", "OrbitalCommand", "PlanetaryFortress", "Hatchery", "Lair", "Hive", "Nexus"}

\* Unit type ids that match the flying townhall arm of update_units.
FlyingTownhallIds == {"CommandCenterFlying", "OrbitalCommandFlying"}

\* Unit type ids that match the gas building arm of update_units.
GasBuildingIds ==
    {"Refinery", "RefineryRich", "Assimilator", "AssimilatorRich", "Extractor", "ExtractorRich"}

\* Unit type ids that match the techlab arm of update_units.
TechlabIds == {"TechLab", "BarracksTechLab", "FactoryTechLab", "StarportTechLab"}

\* Unit type ids that match the reactor arm of update_units.
ReactorIds == {"Reactor", "BarracksReactor", "FactoryReactor", "StarportReactor"}

\* Unit type ids that match the mineral field arm of update_units.
MineralFieldIds ==
    {"RichMineralField", "RichMineralField750", "MineralField", "MineralField450",
     "MineralField750", "LabMineralField", "LabMineralField750",
     "PurifierRichMineralField", "PurifierRichMineralField750", "PurifierMineralField",
     "PurifierMineralField750", "BattleStationMineralField",
     "BattleStationMineralField750", "MineralFieldOpaque", "MineralFieldOpaque900"}

\* Unit type ids that match the vespene geyser arm of update_units.
GeyserIds ==
    {"VespeneGeyser", "SpacePlatformGeyser", "RichVespeneGeyser", "ProtossVespeneGeyser",
     "PurifierVespeneGeyser", "ShakurasVespeneGeyser"}

\* INHIBITOR_IDS of consts.
InhibitorIds == {"InhibitorZoneSmall", "InhibitorZoneMedium", "InhibitorZoneLarge"}

\* Unit types excluded from the burrow inference when a transport is close.
NotBurrowingIds ==
    {"Changeling", "ChangelingZealot", "ChangelingMarineShield", "ChangelingMarine",
     "ChangelingZerglingWings", "ChangelingZergling", "Broodling", "Larva", "Egg"}

\* Transports of is_transport_close.
TransportIds == {"Medivac", "WarpPrism", "WarpPrismPhasing", "OverlordTransport"}

\* Types that are detectors whatever their build progress.
MobileDetectorIds == {"Observer", "ObserverSiegeMode", "Raven", "Overseer", "OverseerSiegeMode"}

\* Types that are detectors once almost ready.
StaticDetectorIds == {"MissileTurret", "SporeCrawler"}

\* Types whose game data holds Attribute::Structure.
StructureTypes ==
    TownhallIds \cup FlyingTownhallIds \cup GasBuildingIds \cup TechlabIds \cup ReactorIds
        \cup {"Barracks", "SupplyDepot", "MissileTurret", "SporeCrawler", "SpawningPool",
              "PhotonCannon", "Pylon", "KD8Charge"}

\* UnitTypeId::is_worker.
WorkerTypes == {"SCV", "Drone", "Probe"}

\* BURROWED_IDS of consts: the burrowed variant of a unit type, where it has one.
BURROWED_IDS(t) ==
    CASE t = "Drone" -> "DroneBurrowed"
      [] t = "Zergling" -> "ZerglingBurrowed"
      [] t = "Roach" -> "RoachBurrowed"
      [] t = "Queen" -> "QueenBurrowed"
      [] OTHER -> "none"

\* Race of a unit type in the game data (Random when the type has no data).
RaceOfType(t) ==
    CASE t \in {"SCV", "Marine", "Barracks", "SupplyDepot", "CommandCenter",
                "CommandCenterFlying", "OrbitalCommand", "OrbitalCommandFlying",
                "PlanetaryFortress", "Refinery", "BarracksTechLab", "BarracksReactor",
                "KD8Charge", "MissileTurret", "Raven", "Medivac"} -> "Terran"
      [] t \in {"Drone", "DroneBurrowed", "Zergling", "ZerglingBurrowed", "Larva", "Egg",
                "Overlord", "OverlordTransport", "Overseer", "Extractor", "Hatchery",
                "Lair", "Hive", "SpawningPool", "SporeCrawler", "Changeling", "Roach",
                "Queen"} -> "Zerg"
      [] t \in {"Probe", "Zealot", "Observer", "Nexus", "Assimilator", "Pylon",
                "PhotonCannon", "WarpPrism"} -> "Protoss"
      [] OTHER -> "Random"

\* Lengths are in half map units, so that the 1.5 of is_transport_close is a whole
\* number; positions are map cells.
Half(cells) == 2 * cells

\* Radius of a unit, in half units.
RadiusOf(u) == IF u.type_id \in StructureTypes THEN 4 ELSE 1

\* Detection range of a detector, in half units.
DetectRangeOf(u) ==
    CASE u.type_id = "Observer" -> 22
      [] u.type_id \in MobileDetectorIds \cup StaticDetectorIds -> 22
      [] OTHER -> 0

\* Squared distance of two cells, in half units.
DistanceSquared(p, q) ==
    Half(p[1] - q[1]) * Half(p[1] - q[1]) + Half(p[2] - q[2]) * Half(p[2] - q[2])

\* Distance::is_closer: whether p is within `distance` of q.
IsCloser(p, distance, q) == DistanceSquared(p, q) <= distance * distance

\* Cells of the visibility map.
Cells == (0..6) \X (0..6)

\* VisibilityMap::get(pos).map_or(false, |p| p.is_visible()).
IsVisibleAt(vis, pos) == pos \in DOMAIN vis /\ vis[pos] = "Visible"

\* VisibilityMap::get(pos).map_or(true, |p| p.is_hidden()).
IsHiddenAt(vis, pos) == pos \notin DOMAIN vis \/ vis[pos] = "Hidden"

\* Bot::is_surround_visible: every cell of the square around pos is visible; a
\* cell left of or below the map wraps to a huge index, which the map does not hold.
IsSurroundVisible(vis, pos, range) ==
    \A x \in (0 - range)..range : \A y \in (0 - range)..range :
        IsVisibleAt(vis, <<pos[1] + x, pos[2] + y>>)

\* Cloak states of the wire format.
CloakStates == {"CloakedUnknown", "NotCloaked", "Cloaked", "CloakedAllied", "CloakedDetected"}

\* Option: None, and Some(v).
None == <<>>

Some(v) == <<v>>

\* A wire record with the values most records have; inputs override fields. The
\* optional stats are floats, kept in halves of a point.
WireUnit(tag, alliance, type, pos) ==
    [tag |-> tag, alliance |-> alliance, unit_type |-> type, pos |-> pos,
     display_type |-> "Visible", cloak |-> "NotCloaked", is_burrowed |-> FALSE,
     build_progress |-> 100, is_flying |-> FALSE, is_hallucination |-> FALSE,
     health |-> None, health_max |-> None, shield |-> None, shield_max |-> None,
     energy |-> None, energy_max |-> None, buff_ids |-> {}, orders |-> <<>>,
     passengers |-> {}]

\* An id of the wire format that the enum of its kind has no variant for.
Unrecognized == "unrecognized"

\* UnitTypeId::from_u32, AbilityId::from_i32, UpgradeId::from_u32,
\* EffectId::from_u32: whether the id has a variant.
IsKnownId(id) == id # Unrecognized

\* Buff ids that BuffId::from_u32 recognises, of those the runs report.
BuffIds == {"ImmortalShield", "Stimpack", "OracleRevelation"}

\* u.health.map(|x| x as u32): an optional float, cut to an integer; the cast
\* of a negative float gives 0.
AsU32(o) == IF o = None THEN None ELSE Some(IF o[1] < 0 THEN 0 ELSE o[1] \div 2)

\* A derivation that takes the cloak state of a burrowed record as reported.
CloakOfReported(w) ==
    CASE w.cloak \in {"CloakedUnknown", "NotCloaked"} -> <<FALSE, FALSE>>
      [] w.cloak \in {"Cloaked", "CloakedAllied"} -> <<TRUE, FALSE>>
      [] OTHER -> <<TRUE, TRUE>>

\* The (is_cloaked, is_revealed) pair Unit::from_proto derives.
CloakOf(w) ==
    IF w.is_burrowed THEN <<TRUE, FALSE>>
    ELSE CASE w.cloak \in {"CloakedUnknown", "NotCloaked"} -> <<FALSE, FALSE>>
           [] w.cloak \in {"Cloaked", "CloakedAllied"} -> <<TRUE, FALSE>>
           [] OTHER -> <<TRUE, TRUE>>

\* A derivation that keeps the display type as reported.
DisplayOfReported(vis, w) == w.display_type

\* The display type Unit::from_proto derives.
DisplayOf(vis, w) ==
    IF w.display_type = "Visible"
        THEN (IF IsVisibleAt(vis, w.pos) THEN "Visible" ELSE "Snapshot")
        ELSE w.display_type

\* Unit::from_proto.
FromProto(vis, w) ==
    [tag |-> w.tag, alliance |-> w.alliance, type_id |-> w.unit_type,
     display_type |-> DisplayOf(vis, w), position |-> w.pos,
     build_progress |-> w.build_progress,
     is_cloaked |-> CloakOf(w)[1], is_revealed |-> CloakOf(w)[2],
     is_burrowed |-> w.is_burrowed, is_flying |-> w.is_flying,
     is_hallucination |-> w.is_hallucination,
     health |-> AsU32(w.health), health_max |-> AsU32(w.health_max),
     shield |-> AsU32(w.shield), shield_max |-> AsU32(w.shield_max),
     energy |-> AsU32(w.energy), energy_max |-> AsU32(w.energy_max),
     buffs |-> w.buff_ids \cap BuffIds,
     orders |-> SelectSeq(w.orders, IsKnownId),
     passengers |-> w.passengers,
     real_speed |-> None]

\* Unit::from_proto panics on a record whose type, or a passenger's type, has no
\* variant.
FromProtoPanics(w) == ~IsKnownId(w.unit_type) \/ \E id \in w.passengers : ~IsKnownId(id)

\* Unit::is_structure.
IsStructure(u) == u.type_id \in StructureTypes

\* Unit::is_worker.
IsWorker(u) == u.type_id \in WorkerTypes

\* Unit::is_placeholder.
IsPlaceholder(u) == u.display_type = "Placeholder"

\* Unit::is_visible.
IsVisible(u) == u.display_type = "Visible"

\* A readiness test that ignores the build progress.
IsReadyAlways(u) == TRUE

\* Unit::is_ready: build progress is 1.0 (progress is kept in percent).
IsReady(u) == u.build_progress = 100

\* Unit::is_almost_ready.
IsAlmostReady(u) == u.build_progress >= 95

\* Unit::is_detector (no PhotonCannon power state is modelled).
IsDetector(u) ==
    \/ u.type_id \in MobileDetectorIds
    \/ IsAlmostReady(u) /\ u.type_id \in StaticDetectorIds

\* Unit::can_be_attacked.
CanBeAttacked(u) == u.is_revealed \/ ~u.is_cloaked

\* current as f32 / max as f32 of two known stats with max other than 0, kept as
\* the pair (current, max).
Percentage(current, max) ==
    IF current = None \/ max = None THEN None
    ELSE IF max[1] = 0 THEN None
    ELSE Some(<<current[1], max[1]>>)

\* Unit::health_percentage.
HealthPercentage(u) == Percentage(u.health, u.health_max)

\* Unit::shield_percentage.
ShieldPercentage(u) == Percentage(u.shield, u.shield_max)

\* Unit::energy_percentage.
EnergyPercentage(u) == Percentage(u.energy, u.energy_max)

\* Unit::hits: summed health and shield and the shield of the Immortal's buff,
\* unknown when health and shield both are.
Hits(u) ==
    LET extra_shield == IF "ImmortalShield" \in u.buffs THEN 100 ELSE 0
    IN CASE u.health # None /\ u.shield # None -> Some(u.health[1] + u.shield[1] + extra_shield)
         [] u.health # None -> Some(u.health[1] + extra_shield)
         [] u.shield # None -> Some(u.shield[1] + extra_shield)
         [] OTHER -> None

\* Unit::hits_max: summed maximal health and shield, unknown when both are.
HitsMax(u) ==
    CASE u.health_max # None /\ u.shield_max # None -> Some(u.health_max[1] + u.shield_max[1])
      [] u.health_max # None -> u.health_max
      [] u.shield_max # None -> u.shield_max
      [] OTHER -> None

\* Unit::hits_percentage.
HitsPercentage(u) == Percentage(Hits(u), HitsMax(u))

\* ------------------------------------------------------------------------
\* Typed collections (Units, PlayerUnits, AllUnits)
\* ------------------------------------------------------------------------

\* Units::new: the empty collection, a map from tag to unit.
NoUnits == [t \in {} |-> 0]

\* The units of collection us that satisfy P.
Select(us, P(_)) == [t \in {x \in DOMAIN us : P(us[x])} |-> us[t]]

\* Extend for Units: entries of b are inserted, replacing those of equal tag.
Extend(a, b) == [t \in DOMAIN a \cup DOMAIN b |-> IF t \in DOMAIN b THEN b[t] ELSE a[t]]

\* Units::remove for every tag of the set.
Without(us, tags) == [t \in DOMAIN us \ tags |-> us[t]]

\* PlayerUnits::default.
NoPlayerUnits ==
    [all |-> NoUnits, units |-> NoUnits, structures |-> NoUnits, townhalls |-> NoUnits,
     workers |-> NoUnits, gas_buildings |-> NoUnits, larvas |-> NoUnits,
     placeholders |-> NoUnits]

\* The sub-collections of PlayerUnits besides all.
SubCollections ==
    {"units", "structures", "townhalls", "workers", "gas_buildings", "larvas", "placeholders"}

\* The owned units that are not placeholders.
MyAllBuilt(us) == Select(us, LAMBDA u : u.alliance = "Own" /\ ~IsPlaceholder(u))

\* update_units, Alliance::Own arm: units.all gets every owned unit.
MyAll(us) == Select(us, LAMBDA u : u.alliance = "Own")

\* A variant of the Alliance::Own arm that adds a placeholder to the structures
\* as well.
MyUnitsWithPlaceholders(us) ==
    LET own == Select(us, LAMBDA u : u.alliance = "Own")
        built == Select(own, LAMBDA u : IsStructure(u))
        mobile == Select(own, LAMBDA u : ~IsStructure(u))
    IN [all |-> own,
        placeholders |-> Select(own, LAMBDA u : IsStructure(u) /\ IsPlaceholder(u)),
        structures |-> built,
        townhalls |-> Select(built, LAMBDA u : u.type_id \in TownhallIds \cup FlyingTownhallIds),
        gas_buildings |-> Select(built, LAMBDA u : u.type_id \in GasBuildingIds),
        units |-> mobile,
        workers |-> Select(mobile, LAMBDA u : IsWorker(u)),
        larvas |-> Select(mobile, LAMBDA u : ~IsWorker(u) /\ u.type_id = "Larva")]

\* update_units, Alliance::Own arm: the collections an owned unit is added to.
MyUnits(us) ==
    LET own == Select(us, LAMBDA u : u.alliance = "Own")
        built == Select(own, LAMBDA u : IsStructure(u) /\ ~IsPlaceholder(u))
        mobile == Select(own, LAMBDA u : ~IsStructure(u))
    IN [all |-> MyAll(us),
        placeholders |-> Select(own, LAMBDA u : IsStructure(u) /\ IsPlaceholder(u)),
        structures |-> built,
        townhalls |-> Select(built, LAMBDA u : u.type_id \in TownhallIds \cup FlyingTownhallIds),
        gas_buildings |-> Select(built, LAMBDA u : u.type_id \in GasBuildingIds),
        units |-> mobile,
        workers |-> Select(mobile, LAMBDA u : IsWorker(u)),
        larvas |-> Select(mobile, LAMBDA u : ~IsWorker(u) /\ u.type_id = "Larva")]

\* update_units, Alliance::Enemy arm: the collections an enemy unit is added to.
EnemyUnits(us) ==
    LET enemy == Select(us, LAMBDA u : u.alliance = "Enemy")
        built == Select(enemy, LAMBDA u : IsStructure(u))
        mobile == Select(enemy, LAMBDA u : ~IsStructure(u))
    IN [all |-> enemy,
        placeholders |-> NoUnits,
        structures |-> built,
        townhalls |-> Select(built, LAMBDA u : u.type_id \in TownhallIds \cup FlyingTownhallIds),
        gas_buildings |-> Select(built, LAMBDA u : u.type_id \in GasBuildingIds),
        units |-> mobile,
        workers |-> Select(mobile, LAMBDA u : IsWorker(u)),
        larvas |-> Select(mobile, LAMBDA u : ~IsWorker(u) /\ u.type_id = "Larva")]

\* update_units, Alliance::Neutral arm.
NeutralUnits(us) ==
    LET neutral == Select(us, LAMBDA u : u.alliance = "Neutral")
        fields == Select(neutral, LAMBDA u : u.type_id \in MineralFieldIds)
        geysers == Select(neutral, LAMBDA u : u.type_id \in GeyserIds)
    IN [watchtowers |-> Select(neutral, LAMBDA u : u.type_id = "XelNagaTower"),
        mineral_fields |-> fields,
        vespene_geysers |-> geysers,
        resources |-> Extend(fields, geysers),
        inhibitor_zones |-> Select(neutral, LAMBDA u : u.type_id \in InhibitorIds),
        destructables |->
            Select(neutral, LAMBDA u :
                u.type_id \notin {"XelNagaTower"} \cup MineralFieldIds \cup GeyserIds
                                     \cup InhibitorIds)]

\* update_units: techlab_tags / reactor_tags are rebuilt from the owned structures.
AddonTags(us, ids) ==
    DOMAIN Select(MyUnits(us).structures, LAMBDA u : u.type_id \in ids)

\* update_units: a saved hallucination stays one (is_hallucination.set_locked(true)).
MarkHallucinations(us, saved) ==
    [t \in DOMAIN us |->
        IF us[t].alliance = "Enemy" /\ t \in saved
            THEN [us[t] EXCEPT !.is_hallucination = TRUE] ELSE us[t]]

\* update_units: the tags of the enemy units reported as hallucinations.
NewHallucinations(us) ==
    DOMAIN Select(us, LAMBDA u : u.alliance = "Enemy" /\ u.is_hallucination)

\* update_units: the entries inserted into the position -> (alliance, base) map
\* of this tick: the enemy start while hidden (base 0 stands for None), then the
\* townhalls in the order of the unit list (ascending tags).
TownhallEntries(us, vis, enemyStart) ==
    LET halls ==
            Select(us, LAMBDA u : /\ u.alliance \in {"Own", "Enemy"}
                                  /\ IsStructure(u)
                                  /\ (u.alliance = "Own" => ~IsPlaceholder(u))
                                  /\ u.type_id \in TownhallIds)
    IN {[loc |-> halls[t].position, alliance |-> halls[t].alliance, base |-> t] :
            t \in DOMAIN halls}
        \cup (IF IsHiddenAt(vis, enemyStart)
                 THEN {[loc |-> enemyStart, alliance |-> "Enemy", base |-> 0]} ELSE {})

\* A variant of the refresh in which an expansion without an entry keeps its
\* alliance and base.
RefreshExpansionsSticky(exps, entries) ==
    [i \in DOMAIN exps |->
        LET here == {e \in entries : e.loc = exps[i].loc}
        IN IF here # {}
            THEN LET e == CHOOSE e \in here : \A f \in here : f.base <= e.base
                 IN [exps[i] EXCEPT !.alliance = e.alliance, !.base = e.base]
            ELSE exps[i]]

\* update_units: every expansion takes the alliance and base of the last entry
\* inserted for its location, or becomes Neutral without base.
RefreshExpansions(exps, entries) ==
    [i \in DOMAIN exps |->
        LET here == {e \in entries : e.loc = exps[i].loc}
        IN IF here # {}
            THEN LET e == CHOOSE e \in here : \A f \in here : f.base <= e.base
                 IN [exps[i] EXCEPT !.alliance = e.alliance, !.base = e.base]
            ELSE [exps[i] EXCEPT !.alliance = "Neutral", !.base = 0]]

\* ------------------------------------------------------------------------
\* Enemies cache
\* ------------------------------------------------------------------------

\* A scanner sweep effect of the observation.
Scan(pos, alliance) == [id |-> "ScannerSweep", pos |-> pos, radius |-> 26, alliance |-> alliance]

\* is_invisible of update_units: no detector and no scan covers the unit.
IsInvisible(u, detectors, scans, gap) ==
    LET additional == RadiusOf(u) + gap
    IN /\ \A t \in DOMAIN detectors :
              ~IsCloser(u.position,
                        additional + RadiusOf(detectors[t]) + DetectRangeOf(detectors[t]),
                        detectors[t].position)
       /\ \A e \in scans : ~IsCloser(u.position, additional + e.radius, e.pos)

\* A variant of is_drone_close that finds no structure close.
IsDroneCloseNever(u, s) == FALSE

\* is_drone_close of update_units: s is a structure a drone may have turned into
\* or entered.
IsDroneClose(u, s) ==
    /\ s.build_progress < 10 \/ (s.type_id = "Extractor" /\ IsReady(s))
    /\ IsCloser(u.position, RadiusOf(u) + RadiusOf(s) + 2, s.position)

\* is_transport_close of update_units: s is a transport that may have loaded u.
IsTransportClose(u, s) ==
    /\ s.type_id \in TransportIds /\ IsReady(s)
    /\ IsCloser(u.position, RadiusOf(u) + RadiusOf(s) + 3, s.position)

\* A variant of the merge in which a cached entry is not replaced by this tick's
\* snapshot of the same tag.
MergeCacheKeepsOld(cache, enemy, terran) ==
    [all |-> Extend(enemy.all, cache.all),
     units |-> Extend(enemy.units, cache.units),
     workers |-> Extend(enemy.workers, cache.workers),
     structures |-> IF terran THEN Extend(enemy.structures, cache.structures)
                    ELSE enemy.structures,
     townhalls |-> IF terran THEN Extend(enemy.townhalls, cache.townhalls)
                   ELSE enemy.townhalls,
     gas_buildings |-> enemy.gas_buildings,
     larvas |-> enemy.larvas,
     placeholders |-> cache.placeholders]

\* A variant of the merge that replaces the structures of every opponent.
MergeCacheReplaces(cache, enemy, terran) ==
    [all |-> Extend(cache.all, enemy.all),
     units |-> Extend(cache.units, enemy.units),
     workers |-> Extend(cache.workers, enemy.workers),
     structures |-> enemy.structures,
     townhalls |-> enemy.townhalls,
     gas_buildings |-> enemy.gas_buildings,
     larvas |-> enemy.larvas,
     placeholders |-> cache.placeholders]

\* update_units: the merge of this tick's enemies into the cache.
MergeCache(cache, enemy, terran) ==
    [all |-> Extend(cache.all, enemy.all),
     units |-> Extend(cache.units, enemy.units),
     workers |-> Extend(cache.workers, enemy.workers),
     structures |-> IF terran THEN Extend(cache.structures, enemy.structures)
                    ELSE enemy.structures,
     townhalls |-> IF terran THEN Extend(cache.townhalls, enemy.townhalls)
                   ELSE enemy.townhalls,
     gas_buildings |-> enemy.gas_buildings,
     larvas |-> enemy.larvas,
     placeholders |-> cache.placeholders]

\* The (collection, tag) entries of the merged cache that hold an older snapshot
\* than cached.all: kept by the merge while cached.all was refreshed.
MergeStale(old, merged, enemy) ==
    {p \in SubCollections \X DOMAIN merged.all :
        /\ p[2] \in DOMAIN merged[p[1]]
        /\ p[2] \notin DOMAIN enemy[p[1]]
        /\ (p[2] \in DOMAIN enemy.all \/ p \in old)}

\* update_units: what the cache loop decides for the cached unit u.
CacheVerdict(u, enemy, detectors, scans, vis, zerg) ==
    IF u.tag \in DOMAIN enemy.all
        THEN (IF u.is_burrowed /\ u.is_revealed /\ IsInvisible(u, detectors, scans, 0)
                 THEN "cloaked" ELSE "keep")
    ELSE IF u.is_flying \/ ~IsStructure(u)
        THEN (IF IsVisibleAt(vis, u.position)
                 THEN (IF IsVisible(u)
                          THEN (IF /\ zerg
                                   /\ ~(\/ u.is_flying
                                        \/ /\ u.type_id \in NotBurrowingIds
                                           /\ \E t \in DOMAIN enemy.units :
                                                  IsTransportClose(u, enemy.units[t])
                                        \/ /\ u.type_id = "Drone"
                                           /\ \E t \in DOMAIN enemy.structures :
                                                  IsDroneClose(u, enemy.structures[t]))
                                   /\ IsInvisible(u, detectors, scans, 0)
                                   /\ IsSurroundVisible(vis, u.position, 2)
                                   THEN "burrowed" ELSE "remove")
                          ELSE (IF ~(u.is_burrowed /\ IsInvisible(u, detectors, scans, 0))
                                   THEN "remove" ELSE "keep"))
                 ELSE "hidden")
    ELSE "remove"

\* update_units, cloaked loop: the unit is marked hidden and cloaked.
MarkCloaked(u) ==
    [u EXCEPT !.display_type = "Hidden", !.is_cloaked = TRUE, !.is_revealed = FALSE]

\* update_units, burrowed loop: the unit becomes its burrowed variant, if any.
MarkBurrowed(u) ==
    IF BURROWED_IDS(u.type_id) # "none"
        THEN [u EXCEPT !.display_type = "Hidden", !.type_id = BURROWED_IDS(u.type_id),
                       !.is_burrowed = TRUE, !.is_cloaked = TRUE, !.is_revealed = FALSE]
        ELSE u

\* A variant of the hidden loop that leaves the display type alone.
MarkHiddenKeepsDisplay(u) == u

\* update_units, hidden loop.
MarkHidden(u) == [u EXCEPT !.display_type = "Hidden"]

\* The cached unit after the loop of its verdict.
Marked(u, verdict) ==
    CASE verdict = "cloaked" -> MarkCloaked(u)
      [] verdict = "burrowed" -> MarkBurrowed(u)
      [] verdict = "hidden" -> MarkHidden(u)
      [] OTHER -> u

\* A variant of the to_remove loop that removes from cached.all only.
EvictedFromAllOnly(terran) == {"all"}

\* update_units, to_remove loop: the collections an evicted tag is removed from.
EvictedFrom(terran) ==
    {"all", "units", "workers"} \cup (IF terran THEN {"structures", "townhalls"} ELSE {})

\* update_units: the cache after the loops. The marks are written through
\* cached.all to the shared unit base, so they show in every sub-collection entry
\* that holds the same snapshot (is not stale).
UpdateCache(merged, old, verdict, terran) ==
    LET evicted == {t \in DOMAIN merged.all : verdict[t] = "remove"}
        final(c) ==
            LET kept == IF c \in EvictedFrom(terran) THEN Without(merged[c], evicted)
                        ELSE merged[c]
            IN [t \in DOMAIN kept |->
                   IF t \in DOMAIN merged.all /\ t \notin evicted /\ (c = "all" \/ <<c, t>> \notin old)
                       THEN Marked(merged.all[t], verdict[t]) ELSE kept[t]]
    IN [c \in {"all"} \cup SubCollections |-> final(c)]

\* ------------------------------------------------------------------------
\* update_state
\* ------------------------------------------------------------------------

\* AllUnits::default.
NoAllUnits ==
    [all |-> NoUnits, my |-> NoPlayerUnits, enemy |-> NoPlayerUnits,
     cached |-> NoPlayerUnits, mineral_fields |-> NoUnits, vespene_geysers |-> NoUnits,
     resources |-> NoUnits, destructables |-> NoUnits, watchtowers |-> NoUnits,
     inhibitor_zones |-> NoUnits]

\* Bot.enemy_start: the opponent's start location.
EnemyStart == <<5, 5>>

\* The positions of the mineral fields of the map, by tag.
MineralPosition ==
    (5 :> <<3, 1>>) @@ (6 :> <<0, 3>>) @@ (12 :> <<6, 6>>) @@ (8 :> <<5, 3>>)

\* prepare_start: the mineral tags of an expansion, sorted by their distance to
\* its location.
SortedMinerals(tags, loc) ==
    CHOOSE seq \in Orderings(tags) :
        \A i, j \in DOMAIN seq :
            i < j => DistanceSquared(MineralPosition[seq[i]], loc)
                         <= DistanceSquared(MineralPosition[seq[j]], loc)

\* The expansions prepare_start has found: their locations, the centres of
\* their resources, their mineral tags and their geyser tags.
StartExpansions ==
    << [loc |-> <<3, 3>>, center |-> <<3, 2>>,
        minerals |-> SortedMinerals({5, 6, 12}, <<3, 3>>), geysers |-> {13},
        alliance |-> "Neutral", base |-> 0],
       [loc |-> EnemyStart, center |-> <<5, 4>>,
        minerals |-> SortedMinerals({8}, EnemyStart), geysers |-> {9},
        alliance |-> "Neutral", base |-> 0] >>

\* A visibility map that holds the same value in every cell.
UniformMap(v) == [c \in Cells |-> v]

\* Bot::default with the opponent's race set: the tick state of a bot that has
\* seen no observation yet, but for its expansions.
BotDefault(races) ==
    /\ game_loop = 0
    /\ enemy_race \in races
    /\ visibility = UniformMap("Hidden")
    /\ effects = {}
    /\ units = NoAllUnits
    /\ stale = {}
    /\ owned_tags = {}
    /\ under_construction = {}
    /\ saved_hallucinations = {}
    /\ available_frames = {}
    /\ last_units_hits = EmptyMap
    /\ last_units_seen = EmptyMap
    /\ techlab_tags = {}
    /\ reactor_tags = {}
    /\ events = <<>>
    /\ emitted = {}
    /\ presumed = {}
    /\ gone = {}
    /\ fresh = {}
    /\ known = EmptyMap
    /\ verdicts = EmptyMap
    /\ accessed = None
    /\ abilities = {}
    /\ upgrades = {}
    /\ panic_message = "none"
    /\ minerals = 0
    /\ vespene = 0
    /\ supply_cap = 0
    /\ supply_used = 0
    /\ supply_left = 0
    /\ spendings = 0

\* The tick state of a bot that has seen no observation yet.
TickInit(races) == BotDefault(races) /\ expansions = StartExpansions

\* No pathing query has been sent.
NoPathing ==
    [goals |-> <<>>, mine |-> [ok |-> TRUE, results |-> <<>>],
     theirs |-> [ok |-> TRUE, results |-> <<>>]]

\* The bot after prepare_start: its inputs are consumed and its clusters are not
\* recorded.
Prepared ==
    /\ started = "done"
    /\ all_resources = <<>>
    /\ ramp_points = <<>>
    /\ placement_grid = {}
    /\ enemy_start = EnemyStart
    /\ resource_groups = <<>>
    /\ ramp_groups = <<>>
    /\ path_service = [mine |-> NoPathing.mine, theirs |-> NoPathing.theirs]
    /\ pathing = NoPathing

\* No call of Unit::from_proto on its own.
NoProto == proto = None /\ unit = None

\* Bot::default, with the opponent's race set by prepare_start.
BotInit(races) == CmdInit /\ TickInit(races) /\ Prepared /\ NoProto

RECURSIVE Ascending(_)
\* The elements of a finite set of numbers in ascending order.
Ascending(S) ==
    IF S = {} THEN <<>>
    ELSE LET m == CHOOSE x \in S : \A y \in S : x <= y
         IN <<m>> \o Ascending(S \ {m})

\* A removal that drops the last element, whichever tag is asked for.
SwapRemoveLast(seq, x) ==
    IF \E i \in DOMAIN seq : seq[i] = x THEN SubSeq(seq, 1, Len(seq) - 1) ELSE seq

\* IndexSet::remove (swap_remove): the last element takes the removed one's place.
SwapRemove(seq, x) ==
    IF \E i \in DOMAIN seq : seq[i] = x
        THEN LET i == CHOOSE k \in DOMAIN seq : seq[k] = x
                 n == Len(seq)
             IN [k \in 1..(n - 1) |-> IF k = i THEN seq[n] ELSE seq[k]]
        ELSE seq

\* A lookup that recognises no enemy.
KnownEnemyNever(u, hallucinations, cache, terran) == FALSE

\* update_state, dead units: whether the cache knows the tag (the removals that
\* make `removed` true).
KnownEnemy(u, hallucinations, cache, terran) ==
    \/ u \in hallucinations
    \/ u \in DOMAIN cache.all
    \/ u \in DOMAIN cache.units
    \/ u \in DOMAIN cache.workers
    \/ terran /\ (u \in DOMAIN cache.structures \/ u \in DOMAIN cache.townhalls)

\* update_state, dead units: the alliance found for a removed tag.
DeadAlliance(u, owned, hallucinations, cache, terran, exps) ==
    IF u \in owned THEN "Own"
    ELSE IF KnownEnemy(u, hallucinations, cache, terran) THEN "Enemy"
    ELSE IF \E i \in DOMAIN exps : \E k \in DOMAIN exps[i].minerals : exps[i].minerals[k] = u
        THEN "Neutral"
    ELSE "None"

\* update_state, dead units: the events pushed for the removed tags.
DeadEvents(dead, alliance(_)) ==
    [i \in DOMAIN dead |-> [kind |-> "UnitDestroyed", tag |-> dead[i], info |-> alliance(dead[i])]]

\* update_state, dead units: the cache without the removed enemy tags.
CacheWithoutDead(cache, deadEnemies, terran) ==
    [c \in {"all"} \cup SubCollections |->
        IF c \in EvictedFrom(terran) THEN Without(cache[c], deadEnemies) ELSE cache[c]]

RECURSIVE ExpansionsWithoutDead(_, _)
\* update_state, dead units: each removed neutral tag is taken out of the first
\* expansion that holds it.
ExpansionsWithoutDead(exps, dead) ==
    IF dead = <<>> THEN exps
    ELSE LET u == Head(dead)
             holds(i) == \E k \in DOMAIN exps[i].minerals : exps[i].minerals[k] = u
             first == IF \E i \in DOMAIN exps : holds(i)
                          THEN CHOOSE i \in DOMAIN exps :
                                   holds(i) /\ \A j \in DOMAIN exps : holds(j) => i <= j
                          ELSE 0
             next == [i \in DOMAIN exps |->
                         IF i = first
                             THEN [exps[i] EXCEPT !.minerals = SwapRemove(@, u)]
                             ELSE exps[i]]
         IN ExpansionsWithoutDead(next, Tail(dead))

\* A variant of the dead-unit loop that leaves under_construction alone.
UnderConstructionKept(under, deadOwn) == under

\* update_state, dead units: bot.under_construction.remove(u) for every removed
\* tag that was owned.
UnderConstructionWithoutDead(under, deadOwn) == under \ deadOwn

\* An owned unit that counts as finished whether or not its construction is tracked.
FinishesUntracked(u, under) == IsReady(u)

\* update_state, events: an owned tag recorded as under construction is ready.
Finishes(u, under) == u.tag \in under /\ IsReady(u)

\* A variant of the event loop that takes every owned unit for a new one.
LifecycleEventsOfNew(u, owned, under) ==
    IF IsStructure(u)
        THEN (IF ~(IsPlaceholder(u) \/ u.type_id = "KD8Charge")
                 THEN (IF IsReady(u)
                          THEN <<[kind |-> "ConstructionComplete", tag |-> u.tag, info |-> "None"]>>
                          ELSE <<[kind |-> "ConstructionStarted", tag |-> u.tag, info |-> "None"]>>)
                 ELSE <<>>)
        ELSE <<[kind |-> "UnitCreated", tag |-> u.tag, info |-> "None"]>>

\* update_state, events: the lifecycle events of one owned unit.
LifecycleEvents(u, owned, under) ==
    IF u.tag \notin owned
        THEN (IF IsStructure(u)
                 THEN (IF ~(IsPlaceholder(u) \/ u.type_id = "KD8Charge")
                          THEN (IF IsReady(u)
                                   THEN <<[kind |-> "ConstructionComplete", tag |-> u.tag, info |-> "None"]>>
                                   ELSE <<[kind |-> "ConstructionStarted", tag |-> u.tag, info |-> "None"]>>)
                          ELSE <<>>)
                 ELSE <<[kind |-> "UnitCreated", tag |-> u.tag, info |-> "None"]>>)
    ELSE IF Finishes(u, under)
        THEN <<[kind |-> "ConstructionComplete", tag |-> u.tag, info |-> "None"]>>
    ELSE <<>>

RECURSIVE AllLifecycleEvents(_, _, _, _)
\* update_state, events: the loop over units.my.all, in the order of its tags.
AllLifecycleEvents(order, my, owned, under) ==
    IF order = <<>> THEN <<>>
    ELSE LifecycleEvents(my[Head(order)], owned, under)
             \o AllLifecycleEvents(Tail(order), my, owned, under)

\* A pass over the events that finds no tag.
TagsOfNone(evs, kind) == {}

\* The tags for which the events hold one of the given kind.
TagsOf(evs, kind) == {evs[i].tag : i \in {k \in DOMAIN evs : evs[k].kind = kind}}

\* update_state: the race detected for a random opponent, "Random" when none is.
DetectedRace(enemyAll) ==
    LET raced == {t \in DOMAIN enemyAll : RaceOfType(enemyAll[t].type_id) # "Random"}
    IN IF raced = {} THEN "Random"
       ELSE RaceOfType(enemyAll[CHOOSE t \in raced : \A x \in raced : t <= x].type_id)

\* update_units: an owned unit in reach of an enemy detector or scan is revealed.
RevealOwn(u, enemyDetectors, enemyScans) ==
    IF /\ ~(DOMAIN enemyDetectors = {} /\ enemyScans = {})
       /\ u.alliance = "Own"
       /\ \/ ~(u.is_revealed \/ IsInvisible(u, enemyDetectors, enemyScans, 2))
          \/ "OracleRevelation" \in u.buffs
        THEN [u EXCEPT !.is_revealed = TRUE] ELSE u

\* A variant of AllUnits::clear that empties nothing.
ClearedNever(old) == old

\* AllUnits::clear: every collection but the cache is emptied.
Cleared(old) ==
    [all |-> NoUnits, my |-> NoPlayerUnits, enemy |-> NoPlayerUnits, cached |-> old.cached,
     mineral_fields |-> NoUnits, vespene_geysers |-> NoUnits, resources |-> NoUnits,
     destructables |-> NoUnits, watchtowers |-> NoUnits, inhibitor_zones |-> NoUnits]

\* add_to! for the collections of a player: the units are pushed to the group.
PushedAll(groups, new) == [c \in DOMAIN groups |-> Extend(groups[c], new[c])]

\* update_units: the collections are cleared, the units of the tick are pushed to
\* their groups and units.all is assigned, with the marks written to the bases
\* the collections share.
Classified(old, us, cache) ==
    LET empty == Cleared(old)
        neutral == NeutralUnits(us)
    IN [all |-> us,
        my |-> PushedAll(empty.my, MyUnits(us)),
        enemy |-> PushedAll(empty.enemy, EnemyUnits(us)),
        cached |-> cache,
        mineral_fields |-> Extend(empty.mineral_fields, neutral.mineral_fields),
        vespene_geysers |-> Extend(empty.vespene_geysers, neutral.vespene_geysers),
        resources |-> Extend(empty.resources, neutral.resources),
        destructables |-> Extend(empty.destructables, neutral.destructables),
        watchtowers |-> Extend(empty.watchtowers, neutral.watchtowers),
        inhibitor_zones |-> Extend(empty.inhibitor_zones, neutral.inhibitor_zones)]

\* update_units: last_units_hits is rebuilt from the units of the previous tick.
LastHits(prev) ==
    [t \in {x \in DOMAIN prev : Hits(prev[x]) # None} |-> Hits(prev[t])[1]]

\* update_units: last_units_seen keeps the loop a unit of the previous tick was
\* first recorded at.
LastSeen(prev, seen, loop) ==
    [t \in DOMAIN prev |-> IF t \in DOMAIN seen THEN seen[t] ELSE loop]

\* The shape of the type changes the game makes under one tag.
Morphs(a, b) ==
    \/ a = b
    \/ {a, b} = {"Drone", "Extractor"}
    \/ {a, b} = {"CommandCenter", "CommandCenterFlying"}

\* What the game guarantees about an observation: a tag keeps its alliance, changes
\* its type only by a morph, does not lose build progress, and is not reported
\* once it has been reported dead.
Plausible(obs) ==
    /\ obs.dead \cap DOMAIN obs.raw = {}
    /\ (DOMAIN obs.raw \cup obs.dead) \cap gone = {}
    /\ \A t \in DOMAIN obs.raw \cap DOMAIN known :
           /\ obs.raw[t].alliance = known[t].alliance
           /\ (obs.raw[t].display_type = "Placeholder") = known[t].placeholder
           /\ Morphs(known[t].unit_type, obs.raw[t].unit_type)
           /\ obs.raw[t].unit_type = known[t].unit_type
                  => obs.raw[t].build_progress >= known[t].build_progress

\* update_state: one tick, from the observation to the returned events.
UpdateState(obs) ==
    LET terran == enemy_race = "Terran"
        zerg == enemy_race = "Zerg"
        loop == game_loop + 1
        \* ids of the observation; a field the observation does not hold is empty
        abilityIds == IF "abilities" \in DOMAIN obs THEN obs.abilities ELSE {}
        upgradeIds == IF "upgrades" \in DOMAIN obs THEN obs.upgrades ELSE {}
        kept == {e \in obs.effects : IsKnownId(e.id)}
        \* dead units
        alliance(u) ==
            DeadAlliance(u, owned_tags, saved_hallucinations, units.cached, terran, expansions)
        deadOwn == {u \in obs.dead : alliance(u) = "Own"}
        deadOther == obs.dead \ deadOwn
        owned1 == owned_tags \ deadOwn
        under1 == UnderConstructionWithoutDead(under_construction, deadOwn)
        seen1 == [t \in DOMAIN last_units_seen \ deadOwn |-> last_units_seen[t]]
        halluc1 == saved_hallucinations \ deadOther
        cache1 == CacheWithoutDead(units.cached, deadOther, terran)
        stale1 == {p \in stale : p[2] \in DOMAIN cache1[p[1]]}
        exps1 == ExpansionsWithoutDead(expansions, Ascending(deadOther))
        \* units of the tick
        us0 == [t \in DOMAIN obs.raw |-> FromProto(obs.vis, obs.raw[t])]
        us1 == MarkHallucinations(us0, halluc1)
        my == MyUnits(us1)
        enemy == EnemyUnits(us1)
        \* enemies cache
        merged == MergeCache(cache1, enemy, terran)
        stale2 == MergeStale(stale1, merged, enemy)
        detectors == Select(my.all, IsDetector)
        scans == {e \in kept : e.id = "ScannerSweep" /\ e.alliance = "Own"}
        verdict ==
            [t \in DOMAIN merged.all |->
                CacheVerdict(merged.all[t], enemy, detectors, scans, obs.vis, zerg)]
        cache2 == UpdateCache(merged, stale2, verdict, terran)
        us2 == [t \in DOMAIN us1 |->
                   IF t \in DOMAIN enemy.all /\ verdict[t] = "cloaked"
                       THEN MarkCloaked(us1[t]) ELSE us1[t]]
        \* own units in reach of enemy detection
        enemyDetectors == Select(cache2.all, IsDetector)
        enemyScans == {e \in kept : e.id = "ScannerSweep" /\ e.alliance = "Enemy"}
        us3 == [t \in DOMAIN us2 |-> RevealOwn(us2[t], enemyDetectors, enemyScans)]
        \* events
        life == AllLifecycleEvents(Ascending(DOMAIN my.all), my.all, owned1, under1)
        completed == {t \in DOMAIN my.all : t \in owned1 /\ Finishes(my.all[t], under1)}
        race == IF enemy_race = "Random" THEN DetectedRace(enemy.all) ELSE "Random"
    IN /\ game_loop < MaxTicks
       /\ panic_message = "none"
       /\ Plausible(obs)
       /\ game_loop' = loop
       /\ IF \E id \in abilityIds : ~IsKnownId(id)
              THEN \* the available abilities are unwrapped: nothing else is written
                   /\ panic_message' = "There's no AbilityId with value"
                   /\ UNCHANGED <<enemy_race, visibility, effects, units, stale, owned_tags,
                                  under_construction, saved_hallucinations, available_frames,
                                  last_units_hits, last_units_seen, techlab_tags,
                                  reactor_tags, expansions, events, emitted, presumed, gone,
                                  fresh, known, verdicts, abilities, upgrades>>
          ELSE IF \E t \in DOMAIN obs.raw : FromProtoPanics(obs.raw[t])
              THEN \* the units are made after the dead units and the upgrades are taken
                   /\ panic_message' = "There's no UnitTypeId with value"
                   /\ abilities' = abilityIds
                   /\ effects' = kept
                   /\ owned_tags' = owned1
                   /\ under_construction' = under1
                   /\ available_frames' = available_frames \ deadOwn
                   /\ last_units_hits' = [t \in DOMAIN last_units_hits \ deadOwn |->
                                              last_units_hits[t]]
                   /\ last_units_seen' = seen1
                   /\ saved_hallucinations' = halluc1
                   /\ units' = [units EXCEPT !.cached = cache1]
                   /\ stale' = stale1
                   /\ expansions' = exps1
                   /\ upgrades' = {id \in upgradeIds : IsKnownId(id)}
                   /\ gone' = gone \cup obs.dead
                   /\ UNCHANGED <<enemy_race, visibility, techlab_tags, reactor_tags, events,
                                  emitted, presumed, fresh, known, verdicts>>
          ELSE     /\ panic_message' = "none"
                   /\ abilities' = abilityIds
                   /\ upgrades' = {id \in upgradeIds : IsKnownId(id)}
                   /\ effects' = kept
                   /\ visibility' = obs.vis
                   /\ available_frames' = available_frames \ deadOwn
                   /\ last_units_hits' = LastHits(units.all)
                   /\ last_units_seen' = LastSeen(units.all, seen1, loop)
                   /\ techlab_tags' = AddonTags(us1, TechlabIds)
                   /\ reactor_tags' = AddonTags(us1, ReactorIds)
                   /\ saved_hallucinations' = halluc1 \cup NewHallucinations(us0)
                   /\ expansions' = RefreshExpansions(exps1, TownhallEntries(us1, obs.vis, enemy_start))
                   /\ units' = Classified(units, us3, cache2)
                   /\ stale' = {p \in stale2 : p[2] \in DOMAIN cache2[p[1]]}
                   /\ owned_tags' = owned1 \cup DOMAIN my.all
                   /\ under_construction' = (under1 \cup TagsOf(life, "ConstructionStarted")) \ completed
                   /\ events' = DeadEvents(Ascending(obs.dead), alliance) \o life
                                    \o (IF race # "Random"
                                           THEN <<[kind |-> "RandomRaceDetected", tag |-> 0, info |-> race]>>
                                           ELSE <<>>)
                   /\ enemy_race' = IF race # "Random" THEN race ELSE enemy_race
                   /\ emitted' = emitted \cup {<<events[i].kind, events[i].tag>> : i \in DOMAIN events}
                   /\ gone' = gone \cup obs.dead
                   /\ fresh' = DOMAIN my.all \ owned1
                   /\ known' = [t \in DOMAIN known \cup DOMAIN obs.raw |->
                                   IF t \in DOMAIN obs.raw
                                       THEN [alliance |-> obs.raw[t].alliance,
                                             unit_type |-> obs.raw[t].unit_type,
                                             placeholder |-> obs.raw[t].display_type = "Placeholder",
                                             build_progress |-> obs.raw[t].build_progress]
                                       ELSE known[t]]
                   /\ verdicts' = verdict
                   /\ presumed' = {t \in DOMAIN cache2.all :
                                      /\ (\/ t \in presumed
                                          \/ t \in DOMAIN verdicts /\ verdicts[t] \in {"cloaked", "burrowed"})
                                      /\ t \notin DOMAIN enemy.all
                                      /\ IsInvisible(merged.all[t], detectors, scans, 0)}
       /\ UNCHANGED <<cmdVars, prepVars, protoVars, econVars, accessed>>

\* ------------------------------------------------------------------------
\* Ticks: lifecycle events
\* ------------------------------------------------------------------------

\* The raw unit list of an observation, a map from tag to wire record.
RawOf(ws) == [t \in {w.tag : w \in ws} |-> CHOOSE w \in ws : w.tag = t]

\* A wire record or none.
Maybe(ws) == {{}} \cup {{w} : w \in ws}

\* An owned worker.
OwnWorker == WireUnit(1, "Own", "SCV", <<1, 1>>)

\* An owned structure, under construction or complete.
OwnBarracks(progress) ==
    [WireUnit(2, "Own", "Barracks", <<2, 2>>) EXCEPT !.build_progress = progress]

\* The placeholder of a structure a worker has been ordered to build.
OwnPlaceholder ==
    [WireUnit(9, "Own", "Barracks", <<4, 2>>) EXCEPT !.display_type = "Placeholder",
                                                     !.build_progress = 0]

\* A KD8 charge thrown by an owned reaper.
OwnCharge == WireUnit(10, "Own", "KD8Charge", <<4, 4>>)

\* The observations of the lifecycle runs.
EventObs ==
    {[dead |-> {},
      raw |-> RawOf(a \cup b \cup c),
      vis |-> UniformMap("Visible"),
      effects |-> {}] :
        a \in Maybe({OwnWorker}),
        b \in Maybe({OwnBarracks(40), OwnBarracks(100)}),
        c \in Maybe({OwnPlaceholder, OwnCharge})}

EventsNext == \E obs \in EventObs : UpdateState(obs)

SpecEvents == BotInit({"Terran"}) /\ [][EventsNext]_vars

\* The kinds of the lifecycle events the last tick returned for a tag, in order.
KindsFor(t) ==
    LET RECURSIVE kinds(_)
        kinds(i) ==
            IF i > Len(events) THEN <<>>
            ELSE (IF events[i].tag = t /\ events[i].kind # "UnitDestroyed"
                         /\ events[i].kind # "RandomRaceDetected"
                     THEN <<events[i].kind>> ELSE <<>>) \o kinds(i + 1)
    IN kinds(1)

\* An owned structure of the last tick that is neither placeholder nor KD8 charge.
Ordinary(t) ==
    /\ t \in DOMAIN units.my.all
    /\ units.my.all[t].type_id \in StructureTypes \ {"KD8Charge"}
    /\ units.my.all[t].display_type # "Placeholder"

\* C5 as stated: whenever a tick emits ConstructionComplete for a tag, an earlier
\* tick emitted ConstructionStarted or UnitCreated for that tag.
C5_CompleteHasEarlierEvent ==
    \A i \in DOMAIN events :
        events[i].kind = "ConstructionComplete"
            => \/ <<"ConstructionStarted", events[i].tag>> \in emitted
               \/ <<"UnitCreated", events[i].tag>> \in emitted

\* C5 amended: whenever a tick emits ConstructionComplete for a tag, either an
\* earlier tick emitted ConstructionStarted for that tag, or the tag is new to the
\* owned-tag set in this tick and is a structure at full build progress, in which
\* case no earlier tick emitted any event for it.
C5_CompleteStartedOrFirstSeen ==
    \A i \in DOMAIN events :
        events[i].kind = "ConstructionComplete"
            => \/ <<"ConstructionStarted", events[i].tag>> \in emitted
               \/ /\ events[i].tag \in fresh
                  /\ units.my.all[events[i].tag].type_id \in StructureTypes
                  /\ units.my.all[events[i].tag].build_progress = 100
                  /\ \A e \in emitted : e[2] # events[i].tag

\* A tick completes a structure whose start an earlier tick reported.
C5_Witness ==
    \E i \in DOMAIN events :
        /\ events[i].kind = "ConstructionComplete"
        /\ <<"ConstructionStarted", events[i].tag>> \in emitted
        /\ events[i].tag \notin fresh

\* C6: an ordinary owned structure first seen at build progress 0.4 gets
\* ConstructionStarted and no other lifecycle event; when the next tick reports
\* it at 1.0 it gets ConstructionComplete and no other lifecycle event, and the
\* tag is then not under construction.
C6_StartedThenComplete ==
    [][\A t \in fresh :
           Ordinary(t) /\ units.my.all[t].build_progress = 40
               => /\ KindsFor(t) = <<"ConstructionStarted">>
                  /\ t \in under_construction
                  /\ (t \in DOMAIN units'.my.all /\ units'.my.all[t].build_progress = 100)
                         => /\ events' # <<>>
                            /\ \E i \in DOMAIN events' :
                                   /\ events'[i] = [kind |-> "ConstructionComplete",
                                                    tag |-> t, info |-> "None"]
                                   /\ \A j \in DOMAIN events' \ {i} : events'[j].tag # t
                            /\ t \notin under_construction']_vars

\* The structure started in the tick before has just been completed.
C6_Witness ==
    /\ <<"ConstructionStarted", 2>> \in emitted
    /\ KindsFor(2) = <<"ConstructionComplete">>
    /\ 2 \notin under_construction
    /\ 2 \in owned_tags
    /\ game_loop = 2

\* The event the specification names for an owned unit new to the owned-tag set.
C7_Expected(u) ==
    IF u.type_id \in StructureTypes
        THEN (IF u.build_progress < 100 THEN "ConstructionStarted" ELSE "ConstructionComplete")
        ELSE "UnitCreated"

\* C7 as stated: every owned tag new to the owned-tag set gets exactly one event
\* in its tick: ConstructionStarted (and it is then under construction) for a
\* structure below full build progress, ConstructionComplete for a complete
\* structure, UnitCreated for anything else.
C7_OneEventPerNewTag ==
    \A t \in fresh :
        /\ KindsFor(t) = <<C7_Expected(units.my.all[t])>>
        /\ C7_Expected(units.my.all[t]) = "ConstructionStarted" => t \in under_construction

\* C7 amended: an owned tag new to the owned-tag set is added to it; a placeholder
\* structure and a KD8 charge get no event and are not put under construction;
\* every other new tag gets exactly one event: ConstructionStarted (and it is then
\* under construction) for a structure below full build progress,
\* ConstructionComplete for a complete structure, UnitCreated for a non-structure.
C7_OneEventUnlessPlaceholder ==
    \A t \in fresh :
        /\ t \in owned_tags
        /\ IF units.my.all[t].type_id \in StructureTypes /\ ~Ordinary(t)
               THEN KindsFor(t) = <<>> /\ t \notin under_construction
               ELSE /\ KindsFor(t) = <<C7_Expected(units.my.all[t])>>
                    /\ (C7_Expected(units.my.all[t]) = "ConstructionStarted")
                           = (t \in under_construction)

\* One tick brings a new worker, a new structure under construction and a new
\* placeholder.
C7_Witness ==
    /\ {1, 2, 9} \subseteq fresh
    /\ KindsFor(9) = <<>>
    /\ KindsFor(1) = <<"UnitCreated">>
    /\ KindsFor(2) = <<"ConstructionStarted">>
    /\ 2 \in under_construction

\* ------------------------------------------------------------------------
\* Ticks: removed tags
\* ------------------------------------------------------------------------

\* An enemy unit of the opponent's race, real or hallucinated.
EnemyRunner(race, hallucination) ==
    [WireUnit(3, "Enemy", IF race = "Terran" THEN "Marine" ELSE "Zergling", <<2, 4>>)
        EXCEPT !.is_hallucination = hallucination]

\* The removed-tag lists hold tag 1 (owned), 3 (enemy), 5 (a mineral field of an
\* expansion) and 7 (a transient object that never was in a unit list).

\* The observations of the removed-tag runs against one opponent race.
DeadObs(race) ==
    {[dead |-> d,
      raw |-> RawOf(a \cup e),
      vis |-> UniformMap("Visible"),
      effects |-> {}] :
        d \in {{}, {1}, {3}, {5}, {7}, {3, 7}, {1, 5}},
        a \in Maybe({OwnWorker}),
        e \in Maybe({EnemyRunner(race, FALSE), EnemyRunner(race, TRUE)})}

DeadObsTerran == DeadObs("Terran")

DeadObsZerg == DeadObs("Zerg")

\* Ticks with removed tags; owned units are reported in every tick they live.
DeadNext ==
    \E obs \in IF enemy_race = "Terran" THEN DeadObsTerran ELSE DeadObsZerg :
        /\ 1 \in DOMAIN obs.raw \cup obs.dead \cup gone
        /\ UpdateState(obs)

SpecDead == BotInit({"Terran", "Zerg"}) /\ [][DeadNext]_vars

\* The alliance the three-way lookup finds for a tag in the state before the tick.
C8_Lookup(u) ==
    IF u \in owned_tags THEN "Own"
    ELSE IF u \in DOMAIN units.cached.all \cup saved_hallucinations THEN "Enemy"
    ELSE IF \E i \in DOMAIN expansions :
                \E k \in DOMAIN expansions[i].minerals : expansions[i].minerals[k] = u
        THEN "Neutral"
    ELSE "None"

\* C8 as stated: a removed tag gets a UnitDestroyed event with the alliance of the
\* three-way lookup (owned, else known enemy, else tracked mineral field), and
\* no UnitDestroyed event when none of the three matches.
C8_NoEventWhenUnknown ==
    [][\A u \in gone' \ gone :
           IF C8_Lookup(u) = "None"
               THEN \A i \in DOMAIN events' : events'[i].tag # u
               ELSE \E i \in DOMAIN events' :
                        events'[i] = [kind |-> "UnitDestroyed", tag |-> u, info |-> C8_Lookup(u)]]_vars

\* C8 amended: every removed tag gets exactly one UnitDestroyed event; its
\* alliance is Own if the tag was in the owned-tag set, else Enemy if it was a
\* cached enemy or a saved hallucination, else Neutral if it was a mineral field
\* of an expansion, and unknown (None) when none of the three matches.
C8_EventForEveryRemovedTag ==
    [][\A u \in gone' \ gone :
           \E i \in DOMAIN events' :
               /\ events'[i] = [kind |-> "UnitDestroyed", tag |-> u, info |-> C8_Lookup(u)]
               /\ \A j \in DOMAIN events' \ {i} :
                      ~(events'[j].kind = "UnitDestroyed" /\ events'[j].tag = u)]_vars

\* A tick has reported a cached enemy and an unknown tag as removed.
C8_Witness ==
    /\ events = <<[kind |-> "UnitDestroyed", tag |-> 3, info |-> "Enemy"],
                  [kind |-> "UnitDestroyed", tag |-> 7, info |-> "None"]>>
    /\ 3 \notin DOMAIN units.cached.all

\* ------------------------------------------------------------------------
\* Ticks: owned collections
\* ------------------------------------------------------------------------

\* An owned unit that is not a structure.
OwnUnit(type) == WireUnit(1, "Own", type, <<1, 1>>)

\* An owned structure, possibly a placeholder.
OwnStructure(type, display, progress) ==
    [WireUnit(2, "Own", type, <<2, 2>>) EXCEPT !.display_type = display,
                                               !.build_progress = progress]

\* The observations of the runs over the owned collections.
UnitObs ==
    {[dead |-> {},
      raw |-> RawOf(a \cup b),
      vis |-> UniformMap("Visible"),
      effects |-> {}] :
        a \in Maybe({OwnUnit("SCV"), OwnUnit("Larva"), OwnUnit("Marine")}),
        b \in Maybe({OwnStructure("CommandCenter", "Visible", 100),
                     OwnStructure("CommandCenterFlying", "Visible", 100),
                     OwnStructure("Refinery", "Visible", 100),
                     OwnStructure("BarracksTechLab", "Visible", 100),
                     OwnStructure("BarracksReactor", "Visible", 40),
                     OwnStructure("Barracks", "Visible", 40),
                     OwnStructure("Barracks", "Placeholder", 0)})}

UnitsNext == \E obs \in UnitObs : UpdateState(obs)

SpecUnits == BotInit({"Terran"}) /\ [][UnitsNext]_vars

\* C9: after every tick the tags of units.my.all are the union of the tags of the
\* owned sub-collections; no tag is in a sub-collection without being in all.
C9_OwnedAllIsUnion ==
    DOMAIN units.my.all = UNION {DOMAIN units.my[c] : c \in SubCollections}

\* A tick has classified an owned larva and an owned placeholder.
C9_Witness ==
    /\ DOMAIN units.my.larvas = {1}
    /\ DOMAIN units.my.placeholders = {2}
    /\ DOMAIN units.my.all = {1, 2}

\* ------------------------------------------------------------------------
\* Ticks: enemies cache
\* ------------------------------------------------------------------------

\* An enemy ground unit of a Zerg opponent.
EnemyGround(type) == WireUnit(3, "Enemy", type, <<3, 3>>)

\* An owned detector in reach of the enemy unit's position.
OwnRaven == [WireUnit(1, "Own", "Raven", <<3, 4>>) EXCEPT !.is_flying = TRUE]

\* The observations of the cache runs: the enemy unit is reported or not, on a
\* map that is visible or hidden, with or without a detector or a scanner sweep.
CacheObs ==
    {[dead |-> {},
      raw |-> RawOf(a \cup e),
      vis |-> UniformMap(v),
      effects |-> x] :
        v \in {"Visible", "Hidden"},
        x \in {{}, {Scan(<<3, 3>>, "Own")}},
        a \in Maybe({OwnRaven}),
        e \in Maybe({EnemyGround("Zergling"), EnemyGround("Larva")})}

\* Ticks of the cache runs; an enemy is reported only where the map is visible.
CacheNext ==
    \E obs \in CacheObs :
        /\ \A t \in DOMAIN obs.raw :
               obs.raw[t].alliance = "Enemy" => IsVisibleAt(obs.vis, obs.raw[t].pos)
        /\ UpdateState(obs)

SpecCache == BotInit({"Zerg"}) /\ [][CacheNext]_vars

\* C10: a cached enemy that an earlier update_units has put on its burrowed or
\* cloaked list, and that since then was neither reported in the enemy set nor
\* covered by a detector or scan, cannot be attacked while it is in the cache.
C10_PresumedNotAttackable ==
    \A t \in presumed :
        t \in DOMAIN units.cached.all => ~CanBeAttacked(units.cached.all[t])

\* ------------------------------------------------------------------------
\* Ticks: the burrow inference for a worker
\* ------------------------------------------------------------------------

\* An enemy worker of a Zerg opponent.
EnemyDrone == WireUnit(3, "Enemy", "Drone", <<3, 3>>)

\* An enemy gas building next to the worker, at the given build progress.
EnemyExtractor(progress) ==
    [WireUnit(4, "Enemy", "Extractor", <<3, 5>>) EXCEPT !.build_progress = progress]

\* The observations of the burrow runs: the worker and the gas building are
\* reported or not, on a map that is visible or hidden, with or without a detector.
BurrowObs ==
    {[dead |-> {},
      raw |-> RawOf(a \cup d \cup s),
      vis |-> UniformMap(v),
      effects |-> {}] :
        v \in {"Visible", "Hidden"},
        a \in Maybe({OwnRaven}),
        d \in Maybe({EnemyDrone}),
        s \in Maybe({EnemyExtractor(5), EnemyExtractor(50), EnemyExtractor(100)})}

\* Ticks of the burrow runs; an enemy is reported only where the map is visible.
BurrowNext ==
    \E obs \in BurrowObs :
        /\ \A t \in DOMAIN obs.raw :
               obs.raw[t].alliance = "Enemy" => IsVisibleAt(obs.vis, obs.raw[t].pos)
        /\ UpdateState(obs)

SpecBurrow == BotInit({"Zerg"}) /\ [][BurrowNext]_vars

\* The step is a tick in which the worker, visible in the tick before, is not
\* reported, while its tile and the tiles around it are visible and no owned
\* detector or scan covers it.
C11_DroneVanishes ==
    /\ game_loop' = game_loop + 1
    /\ 3 \in DOMAIN units.enemy.all
    /\ units.enemy.all[3].type_id = "Drone"
    /\ IsVisible(units.enemy.all[3])
    /\ 3 \notin DOMAIN units'.enemy.all
    /\ IsVisibleAt(visibility', units.enemy.all[3].position)
    /\ IsSurroundVisible(visibility', units.enemy.all[3].position, 2)
    /\ IsInvisible(units.enemy.all[3], Select(units'.my.all, IsDetector),
                   {x \in effects' : x.id = "ScannerSweep" /\ x.alliance = "Own"}, 0)

\* The enemy structures within the burrow-adjacency distance of the worker that
\* are ready gas buildings.
C11_ReadyExtractors(enemy) ==
    {t \in DOMAIN enemy.structures :
        /\ enemy.structures[t].type_id = "Extractor"
        /\ IsReady(enemy.structures[t])
        /\ IsCloser(<<3, 3>>, 1 + RadiusOf(enemy.structures[t]) + 2,
                    enemy.structures[t].position)}

\* The enemy structures within the burrow-adjacency distance of the worker that
\* are below a tenth of their build progress.
C11_FreshStructures(enemy) ==
    {t \in DOMAIN enemy.structures :
        /\ enemy.structures[t].build_progress < 10
        /\ IsCloser(<<3, 3>>, 1 + RadiusOf(enemy.structures[t]) + 2,
                    enemy.structures[t].position)}

EnemyMobile(type) == WireUnit(3, "Enemy", type, <<2, 4>>)

\* An enemy structure of the opponent's race; a lifted townhall is flying.
EnemyBuilding(type) ==
    [WireUnit(4, "Enemy", type, <<6, 1>>) EXCEPT !.is_flying = (type \in FlyingTownhallIds)]

\* The units a tick may report of an opponent of the given race.
MobilesOf(race) ==
    CASE race = "Terran" -> {EnemyMobile("SCV"), EnemyMobile("Marine")}
      [] race = "Protoss" -> {EnemyMobile("Probe"), EnemyMobile("Zealot")}
      [] OTHER -> {EnemyMobile("Drone"), EnemyMobile("Zergling"), EnemyMobile("Larva")}

\* The structures a tick may report of an opponent of the given race.
BuildingsOf(race) ==
    CASE race = "Terran" ->
             {EnemyBuilding("Barracks"), EnemyBuilding("Refinery"),
              EnemyBuilding("CommandCenter"), EnemyBuilding("CommandCenterFlying")}
      [] race = "Protoss" ->
             {EnemyBuilding("Pylon"), EnemyBuilding("Assimilator"), EnemyBuilding("Nexus")}
      [] OTHER ->
             {EnemyBuilding("SpawningPool"), EnemyBuilding("Extractor"),
              EnemyBuilding("Hatchery")}

\* The observations of the runs against one opponent race: the unit and the
\* structure are reported or not, on a map that is visible or hidden.
StealthObs(race) ==
    {[dead |-> {},
      raw |-> RawOf(m \cup s),
      vis |-> UniformMap(v),
      effects |-> {}] :
        v \in {"Visible", "Hidden"},
        m \in Maybe(MobilesOf(race)),
        s \in Maybe(BuildingsOf(race))}

StealthObsTerran == StealthObs("Terran")

StealthObsProtoss == StealthObs("Protoss")

StealthObsZerg == StealthObs("Zerg")

\* Ticks of the runs; an enemy is reported only where the map is visible.
StealthNext ==
    \E obs \in CASE enemy_race = "Terran" -> StealthObsTerran
                 [] enemy_race = "Protoss" -> StealthObsProtoss
                 [] OTHER -> StealthObsZerg :
        /\ \A t \in DOMAIN obs.raw :
               obs.raw[t].alliance = "Enemy" => IsVisibleAt(obs.vis, obs.raw[t].pos)
        /\ UpdateState(obs)

SpecStealth == BotInit({"Terran", "Protoss", "Zerg"}) /\ [][StealthNext]_vars

\* The cached tags that the step's tick finds absent from its enemy set, at a
\* last known position that its visibility map does not show.
C12_AbsentOutOfVision ==
    {t \in DOMAIN units.cached.all :
        /\ game_loop' = game_loop + 1
        /\ t \notin gone'
        /\ t \notin DOMAIN units'.enemy.all
        /\ ~IsVisibleAt(visibility', units.cached.all[t].position)}

\* C12 as stated: every cached entry whose tag is absent from the tick's enemy
\* set and whose last known position is not visible is retained with display
\* Hidden, units and structures alike.
C12_AbsentUnseenIsHidden ==
    [][\A t \in C12_AbsentOutOfVision :
           /\ t \in DOMAIN units'.cached.all
           /\ units'.cached.all[t].display_type = "Hidden"]_vars

\* C12 amended: such an entry is retained with display Hidden if it is flying or
\* not a structure; a structure that does not fly is evicted from the cache.
C12_AbsentUnseenHiddenUnlessStructure ==
    [][\A t \in C12_AbsentOutOfVision :
           IF units.cached.all[t].is_flying \/ ~IsStructure(units.cached.all[t])
               THEN /\ t \in DOMAIN units'.cached.all
                    /\ units'.cached.all[t].display_type = "Hidden"
                    /\ verdicts'[t] = "hidden"
               ELSE /\ t \notin DOMAIN units'.cached.all
                    /\ verdicts'[t] = "remove"]_vars

\* A tick on a hidden map has kept the absent unit as hidden and has evicted the
\* absent structure.
C12_Witness ==
    /\ game_loop = 2
    /\ \A c \in Cells : visibility[c] = "Hidden"
    /\ DOMAIN verdicts = {3, 4}
    /\ verdicts[3] = "hidden" /\ verdicts[4] = "remove"
    /\ DOMAIN units.cached.all = {3}
    /\ units.cached.all[3].display_type = "Hidden"

\* The cached tags that the step's tick finds absent from its enemy set, at a
\* last known position that its visibility map shows.
C13_AbsentInVision ==
    {t \in DOMAIN units.cached.all :
        /\ game_loop' = game_loop + 1
        /\ t \notin gone'
        /\ t \notin DOMAIN units'.enemy.all
        /\ IsVisibleAt(visibility', units.cached.all[t].position)}

\* C13: a cached entry whose tag is absent from the tick's enemy set while its
\* last known position is visible is, after the tick, either evicted or kept as
\* a burrowed variant that is hidden, cloaked and not revealed; it is never left
\* in the cache with its previous type and a Visible display.
C13_AbsentSeenBurrowedOrEvicted ==
    [][\A t \in C13_AbsentInVision :
           \/ t \notin DOMAIN units'.cached.all
           \/ /\ units'.cached.all[t].type_id
                     \in {BURROWED_IDS(x) : x \in {"Drone", "Zergling", "Roach", "Queen"}}
              /\ units'.cached.all[t].is_burrowed
              /\ units'.cached.all[t].display_type = "Hidden"
              /\ units'.cached.all[t].is_cloaked
              /\ ~units'.cached.all[t].is_revealed]_vars

\* C15: a tag that the tick's update_units has evicted is, once the tick is over,
\* in none of the cache's collections (all, units, workers, structures,
\* townhalls, gas_buildings, larvas), whatever the opponent's race.
C15_EvictedFromEveryCollection ==
    \A t \in DOMAIN verdicts :
        verdicts[t] = "remove"
            => \A c \in {"all", "units", "workers", "structures", "townhalls",
                         "gas_buildings", "larvas"} :
                   t \notin DOMAIN units.cached[c]

\* A tick against a Terran opponent has evicted a worker and a townhall that the
\* tick before had put into the cache's collections.
C15_Witness ==
    /\ enemy_race = "Terran"
    /\ DOMAIN verdicts = {3, 4}
    /\ verdicts[3] = "remove" /\ verdicts[4] = "remove"
    /\ known[3].unit_type = "SCV" /\ known[4].unit_type = "CommandCenter"
    /\ DOMAIN units.cached.all = {}

\* C16: after every tick, every tag of the tick's enemy collection is in the
\* cache and the cache holds the tick's snapshot of it: an enemy is inserted when
\* first seen, refreshed in every tick that reports it, and not evicted in such
\* a tick.
C16_EnemyIsCachedFresh ==
    \A t \in DOMAIN units.enemy.all :
        /\ t \in DOMAIN units.cached.all
        /\ units.cached.all[t] = units.enemy.all[t]
        /\ t \in DOMAIN verdicts /\ verdicts[t] # "remove"

\* The third tick has reported a unit and a structure of a Zerg opponent; the
\* cache holds both as the tick reports them.
C16_Witness ==
    /\ enemy_race = "Zerg"
    /\ game_loop = 3
    /\ DOMAIN units.enemy.all = {3, 4}
    /\ units.cached.all[3] = units.enemy.all[3]
    /\ units.cached.all[3].type_id = "Zergling"
    /\ units.cached.all[3].display_type = "Visible"
    /\ units.cached.all[4] = units.enemy.all[4]

\* ------------------------------------------------------------------------
\* The mineral order of an expansion
\* ------------------------------------------------------------------------

\* C17: in every state, the minerals sequence of each expansion is strictly
\* ordered by ascending distance of the mineral field to the expansion's location.
C17_MineralsAscending ==
    \A e \in DOMAIN expansions :
        \A i, j \in DOMAIN expansions[e].minerals :
            i < j => DistanceSquared(MineralPosition[expansions[e].minerals[i]],
                                     expansions[e].loc)
                         < DistanceSquared(MineralPosition[expansions[e].minerals[j]],
                                           expansions[e].loc)

\* ------------------------------------------------------------------------
\* prepare_start
\* ------------------------------------------------------------------------
\* A position of this section is a pair of half map units, as the centres and
\* locations prepare_start computes lie on half units; a cell is a pair of whole
\* map units.

\* The longest list of resources, and of ramp cells, a run starts with.
MaxPoints == 4

\* The elements of a sequence.
Range(seq) == {seq[i] : i \in DOMAIN seq}

\* The sequences without repetition of at most n elements of S.
ListsOf(S, n) ==
    UNION {Orderings(T) : T \in {U \in SUBSET S : Cardinality(U) <= n}}

\* Point2::distance_squared, in squared half units.
PointDistanceSquared(p, q) ==
    (p[1] - q[1]) * (p[1] - q[1]) + (p[2] - q[2]) * (p[2] - q[2])

\* Distance::is_closer for positions in half units, `distance` in half units.
IsCloserHalf(p, distance, q) == PointDistanceSquared(p, q) <= distance * distance

\* The cell of a position: its coordinates cast to usize; the cast of a negative
\* float gives 0.
CellOf(pos) ==
    <<IF pos[1] < 0 THEN 0 ELSE pos[1] \div 2, IF pos[2] < 0 THEN 0 ELSE pos[2] \div 2>>

\* game_info.terrain_height: the ground rises east of x = 25.
TerrainHeight(cell) == IF cell[1] >= 25 THEN 3 ELSE 0

\* Bot::get_height_diff.
GetHeightDiff(p, q) ==
    LET a == TerrainHeight(CellOf(p))
        b == TerrainHeight(CellOf(q))
    IN IF a >= b THEN a - b ELSE b - a

\* A resource of units.resources.
Resource(tag, x, y, geyser) == [tag |-> tag, pos |-> <<2 * x, 2 * y>>, geyser |-> geyser]

\* IndexSet::extend: the elements of `more` that the queue does not hold are
\* appended in their order.
RECURSIVE ExtendQueue(_, _)
ExtendQueue(queue, more) ==
    IF more = <<>> THEN queue
    ELSE ExtendQueue(IF Head(more) \in Range(queue) THEN queue
                     ELSE Append(queue, Head(more)),
                     Tail(more))

\* dbscan: the cluster grows by the neighbours of every point it takes in.
RECURSIVE ExpandCluster(_, _, _, _, _, _)
ExpandCluster(queue, cluster, solved, noise, neighbours, min_points) ==
    IF queue = <<>> THEN [cluster |-> cluster, solved |-> solved, noise |-> noise]
    ELSE LET q == queue[Len(queue)]
             rest == SubSeq(queue, 1, Len(queue) - 1)
         IN IF q \in noise
                THEN ExpandCluster(rest, Append(cluster, q), solved, noise \ {q},
                                   neighbours, min_points)
            ELSE IF q \in solved
                THEN ExpandCluster(rest, cluster, solved, noise, neighbours, min_points)
            ELSE ExpandCluster(IF Len(neighbours[q]) >= min_points
                                   THEN ExtendQueue(rest, neighbours[q]) ELSE rest,
                               Append(cluster, q), solved \cup {q}, noise,
                               neighbours, min_points)

\* dbscan: the points are visited in the order of the input.
RECURSIVE DbscanFrom(_, _, _, _, _, _, _)
DbscanFrom(i, data, clusters, solved, noise, neighbours, min_points) ==
    IF i > Len(data) THEN [clusters |-> clusters, noise |-> noise]
    ELSE IF data[i] \in solved
        THEN DbscanFrom(i + 1, data, clusters, solved, noise, neighbours, min_points)
    ELSE IF Len(neighbours[data[i]]) < min_points
        THEN DbscanFrom(i + 1, data, clusters, solved \cup {data[i]},
                        noise \cup {data[i]}, neighbours, min_points)
    ELSE LET r == ExpandCluster(neighbours[data[i]], <<data[i]>>, solved \cup {data[i]},
                                noise, neighbours, min_points)
         IN DbscanFrom(i + 1, data, Append(clusters, r.cluster), r.solved, r.noise,
                       neighbours, min_points)

\* dbscan of utils: the clusters and the noise of the data, for the neighbours
\* the range query gives for each point.
Dbscan(data, neighbours, min_points) ==
    DbscanFrom(1, data, <<>>, {}, {}, neighbours, min_points)

\* A range query that returns only the neighbours that follow the point in the data.
RangeQueryForward(data, p) ==
    LET at == CHOOSE i \in DOMAIN data : data[i] = p
    IN SelectSeq(SubSeq(data, at, Len(data)),
                 LAMBDA q : /\ PointDistanceSquared(p.pos, q.pos) <= 289
                            /\ GetHeightDiff(p.pos, q.pos) <= 2)

\* range_query of utils with the closures of prepare_start: the resources within
\* RESOURCE_SPREAD (72.25 squared map units) of p and HEIGHT_DIFFERENCE (2) of
\* its terrain height, in the order of the data.
RangeQuery(data, p) ==
    SelectSeq(data, LAMBDA q : /\ PointDistanceSquared(p.pos, q.pos) <= 289
                               /\ GetHeightDiff(p.pos, q.pos) <= 2)

\* prepare_start: the clusters of resources.
ResourceGroups(data) ==
    Dbscan(data, [p \in Range(data) |-> RangeQuery(data, p)], 1).clusters

\* prepare_start: the cells around a ramp cell that are ramp cells too.
RampNeighbours(points, c) ==
    SelectSeq(<< <<c[1] + 1, c[2]>>, <<c[1] - 1, c[2]>>, <<c[1], c[2] + 1>>,
                 <<c[1], c[2] - 1>>, <<c[1] + 1, c[2] + 1>>, <<c[1] - 1, c[2] - 1>>,
                 <<c[1] + 1, c[2] - 1>>, <<c[1] - 1, c[2] + 1>> >>,
              LAMBDA n : n \in Range(points))

\* prepare_start: the clusters of ramp cells.
RampGroups(points) ==
    Dbscan(points, [c \in Range(points) |-> RampNeighbours(points, c)], 1).clusters

\* The clusters of a dbscan result as a set of sets of points.
AsSets(clusters) == {Range(clusters[i]) : i \in DOMAIN clusters}

\* prepare_start: the offsets of the search ring around the resources' centre.
OffsetRing ==
    {o \in (-7..7) \X (-7..7) :
        16 < o[1] * o[1] + o[2] * o[2] /\ o[1] * o[1] + o[2] * o[2] <= 64}

\* The reverse of the order of the offsets: the last one yielded comes first.
RasterAfter(a, b) == b[1] < a[1] \/ (b[1] = a[1] /\ b[2] < a[2])

\* The order in which iproduct! yields two offsets.
RasterBefore(a, b) == a[1] < b[1] \/ (a[1] = b[1] /\ a[2] < b[2])

RECURSIVE SumOf(_, _)
\* The sum of one coordinate of the positions of the resources.
SumOf(rs, k) == IF rs = <<>> THEN 0 ELSE Head(rs).pos[k] + SumOf(Tail(rs), k)

\* Units::center of the resources, floored and moved to the middle of the cell.
FlooredCenter(rs) ==
    [k \in 1..2 |-> 2 * (SumOf(rs, k) \div (2 * Len(rs))) + 1]

\* prepare_start: the centre of a cluster; the mean of the geysers' and of the
\* minerals' centres if it holds both kinds.
CenterOf(rs) ==
    LET gs == SelectSeq(rs, LAMBDA r : r.geyser)
        ms == SelectSeq(rs, LAMBDA r : ~r.geyser)
    IN IF gs # <<>> /\ ms # <<>>
           THEN [k \in 1..2 |->
                    2 * ((SumOf(gs, k) * Len(ms) + SumOf(ms, k) * Len(gs))
                             \div (4 * Len(gs) * Len(ms))) + 1]
           ELSE FlooredCenter(rs)

\* Bot.start_location while the bot knows no townhall of its own.
StartLocation == <<0, 0>>

\* start_center and enemy_start_center: the mean of a start location and of the
\* resources within 11 of it, as the sums and their divisor.
StartCenter(start, data) ==
    LET near == SelectSeq(data, LAMBDA r : IsCloserHalf(r.pos, 22, start))
    IN <<SumOf(near, 1) + start[1], SumOf(near, 2) + start[2], Len(near) + 1>>

\* center.is_closer(4.0, c), for c the centre of a start location: the mean of
\* the location and of the resources within 11 of it.
IsNearStart(center, start, data) ==
    LET near == SelectSeq(data, LAMBDA r : IsCloserHalf(r.pos, 22, start))
        n == Len(near) + 1
        dx == n * center[1] - (SumOf(near, 1) + start[1])
        dy == n * center[2] - (SumOf(near, 2) + start[2])
    IN dx * dx + dy * dy <= 64 * n * n

\* prepare_start: the offsets whose position is on a placeable cell and far
\* enough from every resource of the cluster.
Candidates(rs, grid) ==
    {o \in OffsetRing :
        LET pos == <<FlooredCenter(rs)[1] + 2 * o[1], FlooredCenter(rs)[2] + 2 * o[2]>>
        IN /\ CellOf(pos) \in grid
           /\ \A i \in DOMAIN rs :
                  PointDistanceSquared(pos, rs[i].pos) >= (IF rs[i].geyser THEN 196 ELSE 144)}

\* A search that falls back on the centre of the resources.
LocationOfCenter(rs, grid) == <<FlooredCenter(rs)[1], FlooredCenter(rs)[2]>>

\* prepare_start: the location of a new expansion, or "none" where the search
\* finds no position: the candidate with the least distance to its farthest
\* resource, the first one in the order of the offsets among equals.
LocationOf(rs, grid) ==
    LET pos(o) == <<FlooredCenter(rs)[1] + 2 * o[1], FlooredCenter(rs)[2] + 2 * o[2]>>
        far(o) == CHOOSE d \in {PointDistanceSquared(pos(o), rs[i].pos) : i \in DOMAIN rs} :
                      \A i \in DOMAIN rs : PointDistanceSquared(pos(o), rs[i].pos) <= d
        score == [o \in Candidates(rs, grid) |-> far(o)]
    IN IF DOMAIN score = {} THEN "none"
       ELSE pos(CHOOSE o \in DOMAIN score :
                    \A b \in DOMAIN score :
                        \/ score[o] < score[b]
                        \/ score[o] = score[b] /\ (o = b \/ RasterBefore(o, b)))

\* A variant of the sort that leaves the minerals in the order of the cluster.
SortedByDistanceNot(ms, loc) == ms

RECURSIVE SortedByDistance(_, _)
\* prepare_start: minerals.sort_by, a stable sort of the mineral tags by the
\* distance of the mineral to the location.
SortedByDistance(ms, loc) ==
    IF ms = <<>> THEN <<>>
    ELSE LET last == ms[Len(ms)]
             front == SortedByDistance(SubSeq(ms, 1, Len(ms) - 1), loc)
             keep == SelectSeq(front, LAMBDA r : PointDistanceSquared(r.pos, loc)
                                                    <= PointDistanceSquared(last.pos, loc))
             move == SelectSeq(front, LAMBDA r : PointDistanceSquared(r.pos, loc)
                                                    > PointDistanceSquared(last.pos, loc))
         IN keep \o <<last>> \o move

\* prepare_start: the expansion of a cluster of resources.
ExpansionOf(rs, data, grid, enemy) ==
    LET own == IsNearStart(CenterOf(rs), StartLocation, data)
        taken == IsNearStart(CenterOf(rs), enemy, data)
        loc == IF own THEN StartLocation ELSE IF taken THEN enemy ELSE LocationOf(rs, grid)
        sorted == IF loc = "none" THEN <<>>
                  ELSE SortedByDistance(SelectSeq(rs, LAMBDA r : ~r.geyser), loc)
    IN [loc |-> loc,
        center |-> IF own THEN StartCenter(StartLocation, data)
                   ELSE IF taken THEN StartCenter(enemy, data)
                   ELSE <<CenterOf(rs)[1], CenterOf(rs)[2], 1>>,
        minerals |-> [i \in DOMAIN sorted |-> sorted[i].tag],
        geysers |-> {rs[i].tag : i \in {j \in DOMAIN rs : rs[j].geyser}},
        alliance |-> IF own THEN "Own" ELSE IF taken THEN "Enemy" ELSE "Neutral",
        base |-> 0]

\* prepare_start: the clusters of more than one resource.
Sites(groups) == SelectSeq(groups, LAMBDA g : Len(g) > 1)

\* The rearrangements of a sequence.
Rearrangements(seq) ==
    {[i \in DOMAIN seq |-> seq[f[i]]] : f \in Orderings(DOMAIN seq)}

\* A pathing result without a distance: there is no path.
NoPath == -1

\* The path lengths the game answers in the runs.
PathLengths == {NoPath, 4, 9}

\* my_path.unwrap_or(1_000_000f32)
Unreachable == 1000000

\* A game that answers every pathing request.
Answered == [ok |-> TRUE, results |-> <<9, 4, NoPath>>]

\* The ways the game answers a pathing query of up to three requests: the
\* request fails, or the response holds results, one for each request or fewer.
PathAnswers ==
    {[ok |-> FALSE, results |-> <<>>]}
        \cup {[ok |-> TRUE, results |-> r] :
                  r \in UNION {[1..k -> PathLengths] : k \in 0..Len(Answered.results)}}

\* query_pathing: the answer to n requests; the game sends no more results than
\* it got requests.
QueryPathing(answer, n) ==
    [ok |-> answer.ok,
     results |-> SubSeq(answer.results, 1, IF Len(answer.results) < n
                                               THEN Len(answer.results) ELSE n)]

\* my_path.unwrap_or(1_000_000) * 1.8 - enemy_path.unwrap_or(1_000_000), times ten.
PathScore(my_path, enemy_path) ==
    (IF my_path = NoPath THEN Unreachable ELSE my_path) * 18
        - (IF enemy_path = NoPath THEN Unreachable ELSE enemy_path) * 10

\* prepare_start: the map from a location to its score, built from the zipped
\* results; a location asked twice keeps the later score, a location without a
\* pair of results has no entry.
PathsByLoc(goals, mine, theirs) ==
    LET zipped == {i \in DOMAIN goals : i <= Len(mine) /\ i <= Len(theirs)}
        last(loc) == CHOOSE i \in zipped :
                         goals[i] = loc /\ \A j \in zipped : goals[j] = loc => j <= i
    IN [loc \in {goals[i] : i \in zipped} |-> PathScore(mine[last(loc)], theirs[last(loc)])]

\* A sort that leaves the expansions in the order of the clusters.
SortedByPathNot(found, paths) == {found}

\* expansions.sort_unstable_by: the orders of the expansions in which the scores
\* do not decrease.
SortedByPath(found, paths) ==
    {r \in Rearrangements(found) :
        \A i, j \in DOMAIN r : i < j => paths[r[i].loc] <= paths[r[j].loc]}

\* prepare_start. The search for a location panics where it finds none; the
\* pathing queries are unwrapped and panic where the request fails; the sort
\* looks every compared location up in the map of scores and panics where one
\* is missing.
PrepareStart ==
    /\ started = "no"
    /\ \E groups \in {ResourceGroups(all_resources)} :
       \E found \in {[i \in DOMAIN Sites(groups) |->
                         ExpansionOf(Sites(groups)[i], all_resources, placement_grid,
                                     enemy_start)]} :
       LET goals == [i \in DOMAIN found |-> found[i].loc]
       IN /\ resource_groups' = groups
          /\ IF \E i \in DOMAIN found : found[i].loc = "none"
                 THEN /\ started' = "panicked"
                      /\ panic_message' = "Can't detect right position for expansion"
                      /\ pathing' = NoPathing
                      /\ UNCHANGED <<expansions, ramp_groups>>
                 ELSE LET mine == QueryPathing(path_service.mine, Len(found))
                          theirs == QueryPathing(path_service.theirs, Len(found))
                          paths == PathsByLoc(goals, mine.results, theirs.results)
                      IN IF ~mine.ok
                             THEN /\ started' = "panicked"
                                  /\ panic_message' = "called Result::unwrap() on an Err value"
                                  /\ pathing' = [NoPathing EXCEPT !.goals = goals, !.mine = mine]
                                  /\ UNCHANGED <<expansions, ramp_groups>>
                         ELSE IF ~theirs.ok
                             THEN /\ started' = "panicked"
                                  /\ panic_message' = "called Result::unwrap() on an Err value"
                                  /\ pathing' = [goals |-> goals, mine |-> mine, theirs |-> theirs]
                                  /\ UNCHANGED <<expansions, ramp_groups>>
                         ELSE IF Len(found) > 1 /\ \E i \in DOMAIN goals : goals[i] \notin DOMAIN paths
                             THEN /\ started' = "panicked"
                                  /\ panic_message' = "no entry found for key"
                                  /\ pathing' = [goals |-> goals, mine |-> mine, theirs |-> theirs]
                                  /\ UNCHANGED <<expansions, ramp_groups>>
                         ELSE /\ started' = "done"
                              /\ panic_message' = "none"
                              /\ pathing' = [goals |-> goals, mine |-> mine, theirs |-> theirs]
                              /\ expansions' \in IF Len(found) > 1
                                                     THEN SortedByPath(found, paths)
                                                     ELSE {found}
                              /\ ramp_groups' = RampGroups(ramp_points)
    /\ UNCHANGED <<all_resources, ramp_points, placement_grid, enemy_start, path_service>>
    /\ UNCHANGED <<game_loop, enemy_race, visibility, effects, units, stale, owned_tags,
                   under_construction, saved_hallucinations, available_frames,
                   last_units_hits, last_units_seen, techlab_tags, reactor_tags, events,
                   emitted, presumed, gone, fresh, known, verdicts, accessed, abilities,
                   upgrades>>
    /\ UNCHANGED <<cmdVars, protoVars, econVars>>

\* The resources of the map of the runs: three minerals in a row, the third out
\* of the first one's reach, and on higher ground a mineral in reach of the
\* third and a geyser next to it.
MapResources ==
    {Resource(21, 10, 10, FALSE), Resource(22, 12, 10, FALSE), Resource(23, 19, 10, FALSE),
     Resource(24, 26, 15, TRUE), Resource(25, 26, 10, FALSE)}

\* The ramp cells of the map of the runs: three cells in a row, a cell across a
\* corner and a cell apart.
MapRampCells == {<<2, 2>>, <<3, 2>>, <<4, 2>>, <<5, 3>>, <<8, 8>>}

\* The cells of the map of the runs.
MapCells == (0..34) \X (0..25)

\* The placement grids of the runs: every cell placeable, the north only, the
\* far west only, the high ground only.
Grids ==
    {MapCells, {c \in MapCells : c[2] >= 17}, {c \in MapCells : c[1] <= 4},
     {c \in MapCells : c[1] >= 25}}

\* The opponent's start location of the runs: far from every resource, or next
\* to the first two minerals.
EnemyStarts == {<<120, 120>>, <<10, 10>>}

\* The bot before prepare_start: the lists of resources and of ramp cells come
\* in any order.
StartInit ==
    /\ CmdInit
    /\ BotDefault({"Zerg"})
    /\ expansions = <<>>
    /\ started = "no"
    /\ NoProto
    /\ resource_groups = <<>>
    /\ ramp_groups = <<>>
    /\ pathing = NoPathing
    /\ \/ /\ all_resources \in ListsOf(MapResources, MaxPoints)
          /\ ramp_points = << <<2, 2>>, <<4, 2>>, <<3, 2>> >>
          /\ placement_grid \in Grids
          /\ enemy_start \in EnemyStarts
          /\ path_service = [mine |-> Answered, theirs |-> Answered]
       \/ /\ all_resources = <<Resource(21, 10, 10, FALSE), Resource(22, 12, 10, FALSE)>>
          /\ ramp_points \in ListsOf(MapRampCells, MaxPoints)
          /\ placement_grid = MapCells
          /\ enemy_start = <<120, 120>>
          /\ path_service \in [mine : {Answered, [ok |-> FALSE, results |-> <<>>]},
                                theirs : {Answered}]

SpecStart == StartInit /\ [][PrepareStart]_vars

\* C18: the clusters prepare_start finds, of resources and of ramp cells, are
\* those that dbscan finds for every other order of the same points, when
\* clusters are compared as sets of points.
C18_ClustersOrderIndependent ==
    started # "no"
        => /\ \A data \in Orderings(Range(all_resources)) :
                  AsSets(ResourceGroups(data)) = AsSets(resource_groups)
           /\ started = "done"
                  => \A points \in Orderings(Range(ramp_points)) :
                         AsSets(RampGroups(points)) = AsSets(ramp_groups)

\* prepare_start has clustered a chain of three minerals that came with the
\* middle one last, and a chain of three ramp cells that came with the middle
\* one last: each chain is one cluster.
C18_Witness ==
    /\ started = "done"
    /\ Len(all_resources) = 3
    /\ all_resources[1].tag = 21 /\ all_resources[2].tag = 23 /\ all_resources[3].tag = 22
    /\ AsSets(resource_groups) = {Range(all_resources)}
    /\ ramp_points = << <<2, 2>>, <<4, 2>>, <<3, 2>> >>
    /\ AsSets(ramp_groups) = {Range(ramp_points)}

\* prepare_start has run on exactly the two minerals at (10,10) and (12,10), and
\* the centre of their cluster, (11.5,10.5), is not within 4 of the centre of a
\* start location.
C19_TwoMinerals ==
    /\ started # "no"
    /\ {<<r.tag, r.pos, r.geyser>> : r \in Range(all_resources)}
           = {<<21, <<20, 20>>, FALSE>>, <<22, <<24, 20>>, FALSE>>}
    /\ ~IsNearStart(<<23, 21>>, StartLocation, all_resources)
    /\ ~IsNearStart(<<23, 21>>, enemy_start, all_resources)

\* The positions of the search ring around (11.5,10.5): whole offsets whose
\* squared length is in (16,64].
C19_Ring ==
    {p \in (9..37) \X (7..35) :
        /\ p[1] % 2 = 1 /\ p[2] % 2 = 1
        /\ 64 < (p[1] - 23) * (p[1] - 23) + (p[2] - 21) * (p[2] - 21)
        /\ (p[1] - 23) * (p[1] - 23) + (p[2] - 21) * (p[2] - 21) <= 256}

\* prepare_start has yielded exactly one expansion, on a position of the ring,
\* that lists the mineral closer to it first.
C19_OneExpansion ==
    /\ started = "done"
    /\ Len(expansions) = 1
    /\ expansions[1].loc \in C19_Ring
    /\ Len(expansions[1].minerals) = 2
    /\ {expansions[1].minerals[1], expansions[1].minerals[2]} = {21, 22}
    /\ LET at(t) == IF t = 21 THEN <<20, 20>> ELSE <<24, 20>>
       IN PointDistanceSquared(at(expansions[1].minerals[1]), expansions[1].loc)
              < PointDistanceSquared(at(expansions[1].minerals[2]), expansions[1].loc)

C19_Placeable ==
    {p \in C19_Ring :
        /\ <<p[1] \div 2, p[2] \div 2>> \in placement_grid
        /\ PointDistanceSquared(p, <<20, 20>>) >= 144
        /\ PointDistanceSquared(p, <<24, 20>>) >= 144}

OwnBase(type) ==
    [WireUnit(1, "Own", type, <<3, 3>>) EXCEPT !.is_flying = (type \in FlyingTownhallIds)]

\* The opponent's townhall on its start location.
EnemyBase == WireUnit(4, "Enemy", "CommandCenter", EnemyStart)

\* A map that is visible but for the cell of the opponent's start location, which
\* has not been seen yet.
EdgeMap == [c \in Cells |-> IF c = EnemyStart THEN "Hidden" ELSE "Visible"]

\* The observations of the runs over the expansions: the townhalls are reported
\* or not, or reported dead, on a map that is unseen, seen but for the centre of
\* the opponent's start location, or seen.
BaseObs ==
    {[dead |-> d,
      raw |-> RawOf(a \cup e),
      vis |-> v,
      effects |-> {}] :
        d \in {{}, {1}, {4}},
        v \in {UniformMap("Hidden"), EdgeMap, UniformMap("Visible")},
        a \in Maybe({OwnBase("CommandCenter"), OwnBase("CommandCenterFlying")}),
        e \in Maybe({EnemyBase})}

\* Ticks of the runs over the expansions: a cell that has been seen does not
\* become unseen again, and a townhall is reported only on a map that shows the
\* cells around it.
BaseNext ==
    \E obs \in BaseObs :
        /\ game_loop > 0 => \A c \in Cells : visibility[c] # "Hidden" => obs.vis[c] # "Hidden"
        /\ DOMAIN obs.raw # {} => obs.vis # UniformMap("Hidden")
        /\ UpdateState(obs)

SpecBases == BotInit({"Terran"}) /\ [][BaseNext]_vars

\* The townhalls that stand on the location of expansion i after the step.
C20_Standing(i) ==
    {t \in DOMAIN units'.all :
        /\ units'.all[t].alliance \in {"Own", "Enemy"}
        /\ units'.all[t].type_id \in TownhallIds
        /\ units'.all[t].position = expansions[i].loc}

\* The step keeps the records of the list: their number, order, locations and
\* minerals.
C20_SameRecords ==
    /\ DOMAIN expansions' = DOMAIN expansions
    /\ \A i \in DOMAIN expansions :
           /\ expansions'[i].loc = expansions[i].loc
           /\ expansions'[i].minerals = expansions[i].minerals

\* C20 as stated: no tick adds or removes an expansion, and an expansion that
\* had a base becomes Neutral without base in the tick in which no townhall
\* stands on its location.
C20_LostBaseIsNeutral ==
    [][/\ C20_SameRecords
       /\ \A i \in DOMAIN expansions :
              expansions[i].base # 0 /\ C20_Standing(i) = {}
                  => expansions'[i].alliance = "Neutral" /\ expansions'[i].base = 0]_vars

\* C20 amended: no tick adds or removes an expansion, and an expansion that had a
\* base loses it in the tick in which no townhall stands on its location: it
\* becomes Neutral, unless it is the opponent's start location and that location
\* has never been seen, in which case it is Enemy.
C20_LostBaseIsNeutralOrUnseenStart ==
    [][/\ C20_SameRecords
       /\ \A i \in DOMAIN expansions :
              expansions[i].base # 0 /\ C20_Standing(i) = {}
                  => /\ expansions'[i].base = 0
                     /\ expansions'[i].alliance =
                            IF expansions[i].loc = enemy_start
                                   /\ IsHiddenAt(visibility', enemy_start)
                                THEN "Enemy" ELSE "Neutral"]_vars

\* The owned townhall of the first expansion has been reported dead: the
\* expansion is still in the list and is Neutral without base.
C20_Witness ==
    /\ 1 \in gone
    /\ <<"ConstructionComplete", 1>> \in emitted
    /\ Len(expansions) = 2
    /\ expansions[1].loc = <<3, 3>>
    /\ expansions[1].alliance = "Neutral" /\ expansions[1].base = 0

\* ------------------------------------------------------------------------
\* The fields of an expansion that a tick may change
\* ------------------------------------------------------------------------

\* The tags a sequence holds.
C21_TagsIn(seq) == {seq[k] : k \in DOMAIN seq}

\* The step leaves the location, the centre and the geysers of every expansion
\* as they were.
C21_PlaceKept ==
    /\ DOMAIN expansions' = DOMAIN expansions
    /\ \A i \in DOMAIN expansions :
           /\ expansions'[i].loc = expansions[i].loc
           /\ expansions'[i].center = expansions[i].center
           /\ expansions'[i].geysers = expansions[i].geysers

\* C21 as stated: a tick changes an expansion in its alliance and base only; the
\* location, the centre, the minerals and the geysers stay as they were.
C21_OnlyOccupantChanges ==
    [][/\ C21_PlaceKept
       /\ \A i \in DOMAIN expansions : expansions'[i].minerals = expansions[i].minerals]_vars

\* C21 amended: a tick leaves the location, the centre and the geysers of every
\* expansion as they were; its minerals lose the tags the tick reports as dead
\* and no other, and gain none.
C21_OnlyOccupantAndDeadMineralsChange ==
    [][/\ C21_PlaceKept
       /\ \A i \in DOMAIN expansions :
              /\ C21_TagsIn(expansions'[i].minerals)
                     = C21_TagsIn(expansions[i].minerals) \ gone'
              /\ Len(expansions'[i].minerals) = Cardinality(C21_TagsIn(expansions'[i].minerals))]_vars

\* A mineral field of the first expansion has been reported dead and is no
\* longer among its minerals, the other two are; the geyser is kept.
C21_Witness ==
    /\ 5 \in gone
    /\ C21_TagsIn(expansions[1].minerals) = {6, 12}
    /\ expansions[1].geysers = {13}
    /\ expansions[1].center = <<3, 2>>

\* ------------------------------------------------------------------------
\* prepare_start: the order of the expansions
\* ------------------------------------------------------------------------

\* The resources of the runs over the order: three clusters, the two of the
\* map and a pair of minerals in its north.
PathResources ==
    <<Resource(21, 10, 10, FALSE), Resource(22, 12, 10, FALSE),
      Resource(24, 26, 15, TRUE), Resource(25, 26, 10, FALSE),
      Resource(26, 10, 22, FALSE), Resource(27, 12, 22, FALSE)>>

\* The bot before prepare_start on a map of three clusters; the game answers
\* the two pathing queries in every way.
PathInit ==
    /\ CmdInit
    /\ BotDefault({"Zerg"})
    /\ expansions = <<>>
    /\ started = "no"
    /\ NoProto
    /\ resource_groups = <<>>
    /\ ramp_groups = <<>>
    /\ pathing = NoPathing
    /\ all_resources = PathResources
    /\ ramp_points = << <<2, 2>>, <<4, 2>>, <<3, 2>> >>
    /\ placement_grid = MapCells
    /\ enemy_start \in EnemyStarts
    /\ path_service \in [mine : PathAnswers, theirs : PathAnswers]

SpecPaths == PathInit /\ [][PrepareStart]_vars

\* Ten times the composite score of the k-th expansion of the list: the results
\* the two queries gave for the request with its location, 1,000,000 for a
\* result without distance.
C22_Score(k) ==
    LET i == CHOOSE r \in DOMAIN pathing.goals : pathing.goals[r] = expansions[k].loc
        my_path == pathing.mine.results[i]
        enemy_path == pathing.theirs.results[i]
    IN 18 * (IF my_path = -1 THEN 1000000 ELSE my_path)
           - 10 * (IF enemy_path = -1 THEN 1000000 ELSE enemy_path)

\* C22: after prepare_start the expansions are in non-decreasing order of the
\* composite score, path from the own start times 1.8 minus path from the
\* opponent's start, with 1,000,000 for a path that does not exist.
C22_SortedByScore ==
    started = "done" /\ Len(expansions) > 1
        => \A k \in 1..(Len(expansions) - 1) : C22_Score(k) <= C22_Score(k + 1)

\* prepare_start has ordered three expansions by distinct scores, one of them
\* with a path that does not exist, and has moved the first cluster's expansion
\* from the first place.
C22_Witness ==
    /\ started = "done"
    /\ Len(expansions) = 3
    /\ -1 \in {pathing.mine.results[i] : i \in 1..3}
    /\ expansions[1].loc # pathing.goals[1]
    /\ C22_Score(1) < C22_Score(2) /\ C22_Score(2) < C22_Score(3)

\* C23: whatever the pathing queries answer, a result without distance, a
\* failed request or fewer results than requests, prepare_start does not abort
\* in the ordering of the expansions.
C23_OrderingNeverAborts ==
    started # "no" /\ pathing.goals # <<>> => started = "done"

\* ------------------------------------------------------------------------
\* prepare_start: a cluster without a position for a townhall
\* ------------------------------------------------------------------------

\* The clusters prepare_start has found that are no start location's and for
\* which no offset of the ring is on a placeable cell and far enough from every
\* resource.
C24_Unplaceable ==
    {i \in DOMAIN resource_groups :
        /\ Len(resource_groups[i]) > 1
        /\ ~IsNearStart(CenterOf(resource_groups[i]), StartLocation, all_resources)
        /\ ~IsNearStart(CenterOf(resource_groups[i]), enemy_start, all_resources)
        /\ Candidates(resource_groups[i], placement_grid) = {}}

\* C24: where a cluster that is no start location's has no position for a
\* townhall, prepare_start panics with the message of the search and sets no
\* list of expansions.
C24_NoPositionIsFatal ==
    started # "no" /\ C24_Unplaceable # {}
        => /\ started = "panicked"
           /\ panic_message = "Can't detect right position for expansion"
           /\ expansions = <<>>

\* prepare_start has panicked on a map with two clusters, of which one has a
\* position for a townhall and the other has none.
C24_Witness ==
    /\ started = "panicked"
    /\ panic_message = "Can't detect right position for expansion"
    /\ Cardinality(C24_Unplaceable) = 1
    /\ Cardinality({i \in DOMAIN resource_groups : Len(resource_groups[i]) > 1}) = 2

\* ------------------------------------------------------------------------
\* Unit::from_proto on its own
\* ------------------------------------------------------------------------

\* A visibility map with cells of every kind: the first column is hidden, the
\* second fogged, the last never to be seen, the others visible.
MixedMap ==
    [c \in Cells |-> CASE c[1] = 0 -> "Hidden"
                       [] c[1] = 1 -> "Fogged"
                       [] c[1] = 6 -> "FullHidden"
                       [] OTHER -> "Visible"]

\* Display types of the wire format.
DisplayTypes == {"Visible", "Snapshot", "Hidden", "Placeholder"}

\* The wire records of the runs over the stealth and display fields: every
\* cloak state, burrowed or not, every display type, on a cell of every kind and
\* on a position the map does not hold.
StealthRecords ==
    {[WireUnit(3, "Enemy", "Roach", pos)
         EXCEPT !.is_burrowed = b, !.cloak = c, !.display_type = d] :
        b \in BOOLEAN, c \in CloakStates, d \in DisplayTypes,
        pos \in {<<0, 3>>, <<1, 3>>, <<3, 3>>, <<6, 3>>, <<7, 3>>, <<3, 9>>}}

\* The values of an optional stat in the runs: not reported, zero, 90.5 points.
StatValues == {None, Some(0), Some(181)}

\* The wire records of the runs over the stats.
StatRecords ==
    {[WireUnit(1, "Own", "Immortal", <<3, 3>>)
         EXCEPT !.health = h, !.health_max = hm, !.shield = s, !.shield_max = sm,
                !.energy = e, !.energy_max = em, !.buff_ids = b] :
        h \in StatValues, hm \in StatValues, s \in StatValues, sm \in StatValues,
        e \in {None, Some(181)}, em \in {None, Some(0), Some(400)},
        b \in {{}, {"ImmortalShield"}, {"Buff9999"}}}

\* Before a call of Unit::from_proto with a wire record of the runs.
ProtoInit ==
    /\ CmdInit
    /\ TickInit({"Zerg"})
    /\ Prepared
    /\ proto \in {Some([visibility |-> MixedMap, u |-> w]) : w \in StealthRecords \cup StatRecords}
    /\ unit = None

\* The call of Unit::from_proto.
FromProtoCall ==
    /\ proto # None
    /\ unit = None
    /\ unit' = Some(FromProto(proto[1].visibility, proto[1].u))
    /\ UNCHANGED <<proto, cmdVars, tickVars, prepVars, econVars>>

SpecProto == ProtoInit /\ [][FromProtoCall]_vars

\* C25: the Unit made from a wire record flagged burrowed is cloaked and not
\* revealed, whatever cloak state the record reports.
C25_BurrowedIsCloakedUnrevealed ==
    unit # None /\ proto[1].u.is_burrowed
        => unit[1].is_cloaked /\ ~unit[1].is_revealed

\* from_proto has made a Unit from a record that is burrowed and reported as
\* CloakedDetected.
C25_Witness ==
    /\ unit # None
    /\ proto[1].u.is_burrowed
    /\ proto[1].u.cloak = "CloakedDetected"
    /\ unit[1].is_cloaked /\ ~unit[1].is_revealed

\* C26: the Unit made from a record reported Visible has display type Visible
\* if the cell of its position is visible in the map of the tick, and Snapshot
\* if the cell is not or the map does not hold it; a record reported Snapshot,
\* Hidden or Placeholder keeps its display type.
C26_VisibleOffVisionIsSnapshot ==
    unit # None
        => LET u == proto[1].u
               vis == proto[1].visibility
           IN unit[1].display_type =
                  IF u.display_type # "Visible" THEN u.display_type
                  ELSE IF u.pos \in DOMAIN vis /\ vis[u.pos] = "Visible" THEN "Visible"
                  ELSE "Snapshot"

\* from_proto has made a Snapshot of a record reported Visible on a fogged cell.
C26_Witness ==
    /\ unit # None
    /\ proto[1].u.display_type = "Visible"
    /\ proto[1].u.pos = <<1, 3>>
    /\ unit[1].display_type = "Snapshot"

\* C27: every derived stat of a Unit is unknown whenever a stat it depends on
\* is unknown: the three percentages, the summed hits, their maximum and their
\* percentage.
C27_UnknownPropagates ==
    unit # None
        => LET u == unit[1]
           IN /\ u.health = None \/ u.health_max = None => HealthPercentage(u) = None
              /\ u.shield = None \/ u.shield_max = None => ShieldPercentage(u) = None
              /\ u.energy = None \/ u.energy_max = None => EnergyPercentage(u) = None
              /\ u.health = None \/ u.shield = None => Hits(u) = None
              /\ u.health_max = None \/ u.shield_max = None => HitsMax(u) = None
              /\ u.health = None \/ u.shield = None \/ u.health_max = None
                     \/ u.shield_max = None => HitsPercentage(u) = None

\* ------------------------------------------------------------------------
\* Ticks: the values a unit memoizes
\* ------------------------------------------------------------------------

\* UnitTypeData.movement_speed of the types of the runs, in tenths.
MovementSpeed(type) == IF type \in {"ZerglingBurrowed", "DroneBurrowed"} THEN 0 ELSE 41

\* The write of a LazyInit of the base of unit t, seen in a collection that
\* holds a Unit of that base.
Memoized(us, t, v) ==
    [x \in DOMAIN us |-> IF x = t THEN [us[x] EXCEPT !.real_speed = v] ELSE us[x]]

\* The write seen in the collections of a player.
MemoizedPlayer(pu, t, v) == [k \in DOMAIN pu |-> Memoized(pu[k], t, v)]

\* The write seen in the enemies cache: an entry that holds an older Unit than
\* cached.all is of another base.
MemoizedCache(cache, old, t, v) ==
    [k \in DOMAIN cache |-> IF <<k, t>> \in old THEN cache[k] ELSE Memoized(cache[k], t, v)]

\* Unit::base_real_speed of the unit with tag t of units.all or units.cached.all,
\* called between two ticks: real_speed.get_or_create returns the value the base
\* holds, or computes and stores it. The value is kept with the loop it was
\* computed in.
BaseRealSpeed(t) ==
    /\ game_loop > 0
    /\ panic_message = "none"
    /\ t \in DOMAIN units.all \cup DOMAIN units.cached.all
    /\ LET u == IF t \in DOMAIN units.all THEN units.all[t] ELSE units.cached.all[t]
           value == IF u.real_speed # None THEN u.real_speed
                    ELSE Some([speed |-> MovementSpeed(u.type_id), computed |-> game_loop])
       IN /\ accessed' = Some([tag |-> t, speed |-> value[1].speed,
                               computed |-> value[1].computed, at |-> game_loop])
          /\ units' = [all |-> Memoized(units.all, t, value),
                       my |-> MemoizedPlayer(units.my, t, value),
                       enemy |-> MemoizedPlayer(units.enemy, t, value),
                       cached |-> MemoizedCache(units.cached, stale, t, value),
                       mineral_fields |-> Memoized(units.mineral_fields, t, value),
                       vespene_geysers |-> Memoized(units.vespene_geysers, t, value),
                       resources |-> Memoized(units.resources, t, value),
                       destructables |-> Memoized(units.destructables, t, value),
                       watchtowers |-> Memoized(units.watchtowers, t, value),
                       inhibitor_zones |-> Memoized(units.inhibitor_zones, t, value)]
    /\ UNCHANGED <<game_loop, enemy_race, visibility, effects, stale, owned_tags,
                   under_construction, saved_hallucinations, available_frames,
                   last_units_hits, last_units_seen, techlab_tags, reactor_tags,
                   expansions, events, emitted, presumed, gone, fresh, known, verdicts,
                   abilities, upgrades, panic_message>>
    /\ UNCHANGED <<cmdVars, prepVars, protoVars, econVars>>

\* The observations of the runs over the memoized values: an owned unit, and an
\* enemy unit that is reported or not, on a map that is visible or hidden.
MemoObs ==
    {[dead |-> {},
      raw |-> RawOf({OwnUnit("Marine")} \cup e),
      vis |-> UniformMap(v),
      effects |-> {}] :
        v \in {"Visible", "Hidden"},
        e \in Maybe({EnemyMobile("Zergling")})}

\* A tick, or a read of the real speed of a unit between two ticks.
MemoNext ==
    \/ \E obs \in MemoObs :
           /\ \A t \in DOMAIN obs.raw :
                  obs.raw[t].alliance = "Enemy" => IsVisibleAt(obs.vis, obs.raw[t].pos)
           /\ UpdateState(obs)
    \/ \E t \in {1, 3} : BaseRealSpeed(t)

SpecMemo == BotInit({"Zerg"}) /\ [][MemoNext]_vars

\* C28: a read of a memoized value returns a value that was computed in the
\* tick of the read, whatever collection holds the unit.
C28_MemoLivesOneTick ==
    accessed # None => accessed[1].computed = accessed[1].at

\* ------------------------------------------------------------------------
\* Ticks: ids without a variant
\* ------------------------------------------------------------------------

\* An owned unit with a buff and an order, each reported with an id of every
\* kind, and a passenger.
OwnCarrier(type, buffs, orders, passengers) ==
    [WireUnit(1, "Own", type, <<1, 1>>)
        EXCEPT !.buff_ids = buffs, !.orders = orders, !.passengers = passengers]

\* The observations of the runs over the ids: a list of ids holds known ids
\* only, or a known id and one without a variant.
IdObs ==
    {[dead |-> {},
      raw |-> RawOf({OwnCarrier(type, buffs, orders, passengers)}),
      vis |-> UniformMap("Visible"),
      effects |-> e,
      abilities |-> a,
      upgrades |-> u] :
        type \in {"Medivac", Unrecognized},
        buffs \in {{"Stimpack"}, {"Stimpack", Unrecognized}},
        orders \in {<<"Move">>, <<Unrecognized, "Move">>},
        passengers \in {{}, {"Marine"}, {Unrecognized}},
        e \in {{}, {Scan(<<2, 2>>, "Own")},
                {Scan(<<2, 2>>, "Own"), [Scan(<<3, 3>>, "Own") EXCEPT !.id = Unrecognized]}},
        a \in {{}, {"Smart"}, {"Smart", Unrecognized}},
        u \in {{}, {"Stimpack"}, {"Stimpack", Unrecognized}}}

IdsNext == \E obs \in IdObs : UpdateState(obs)

SpecIds == BotInit({"Terran"}) /\ [][IdsNext]_vars

\* C29: an id without a variant, of a buff, an upgrade, an effect, an order or
\* an available ability, is left out and the tick completes; the tick aborts
\* only for a unit, carried or not, whose own type id has no variant.
C29_OnlyTypeIdAborts ==
    /\ panic_message \in {"none", "There's no UnitTypeId with value"}
    /\ Unrecognized \notin abilities \cup upgrades \cup {e.id : e \in effects}
    /\ \A t \in DOMAIN units.all :
           /\ Unrecognized \notin units.all[t].buffs
           /\ \A k \in DOMAIN units.all[t].orders : units.all[t].orders[k] # Unrecognized

\* ------------------------------------------------------------------------
\* Ticks: the collections of the tick
\* ------------------------------------------------------------------------

\* The units of the map as a tick reports them: two owned units, two enemy
\* units and a neutral unit of every kind; the mobile ones stand one cell
\* further in the later report.
Reported(later) ==
    LET step == IF later THEN 1 ELSE 0
    IN {WireUnit(1, "Own", "SCV", <<1 + step, 1>>),
        WireUnit(2, "Own", "Barracks", <<2, 2>>),
        WireUnit(3, "Enemy", "Marine", <<2 + step, 4>>),
        WireUnit(4, "Enemy", "Barracks", <<6, 1>>),
        WireUnit(5, "Neutral", "MineralField", <<3, 1>>),
        WireUnit(6, "Neutral", "VespeneGeyser", <<0, 3>>),
        WireUnit(7, "Neutral", "XelNagaTower", <<4, 4>>),
        WireUnit(8, "Neutral", "InhibitorZoneSmall", <<5, 5>>),
        WireUnit(10, "Neutral", "Rocks", <<6, 6>>)}

\* The tags a tick reports: all, none, or a part of them.
ReportedTags == {{}, 1..10, {1, 3, 5, 7, 10}, {2, 4, 6, 8}, {1, 2, 5, 6}, {3, 4, 7, 8, 10}}

\* The observations of the runs over the collections.
RebuildObs ==
    {[dead |-> {},
      raw |-> RawOf({w \in Reported(later) : w.tag \in tags}),
      vis |-> UniformMap("Visible"),
      effects |-> {}] : later \in BOOLEAN, tags \in ReportedTags}

RebuildNext == \E obs \in RebuildObs : UpdateState(obs)

SpecRebuild == BotInit({"Terran"}) /\ [][RebuildNext]_vars

\* The collections of AllUnits and of its PlayerUnits besides the cache.
C30_Collections(all) ==
    {all.all, all.mineral_fields, all.vespene_geysers, all.resources, all.destructables,
     all.watchtowers, all.inhibitor_zones}
        \cup {all.my[c] : c \in DOMAIN all.my} \cup {all.enemy[c] : c \in DOMAIN all.enemy}

\* The fields of a unit that update_units does not write after from_proto.
C30_Data(u) ==
    [u EXCEPT !.is_hallucination = FALSE, !.is_cloaked = FALSE, !.is_revealed = FALSE]

\* C30: after update_units every collection besides the cache holds only tags of
\* the tick's raw list, each with the data of the tick's record; a tag the tick
\* does not report is in none of them.
C30_RebuiltEveryTick ==
    [][\A obs \in RebuildObs :
           UpdateState(obs) =>
               \A coll \in C30_Collections(units') :
                   \A t \in DOMAIN coll :
                       /\ t \in DOMAIN obs.raw
                       /\ C30_Data(coll[t]) = C30_Data(FromProto(obs.vis, obs.raw[t]))]_vars

\* A tick has dropped a tag of every kind of collection that the tick before had
\* reported, and reports a unit at another position than before.
C30_Witness ==
    /\ game_loop > 1
    /\ DOMAIN units.all = {1, 3, 5, 7, 10}
    /\ {2, 4, 6, 8} \subseteq DOMAIN last_units_seen
    /\ 1 \in DOMAIN last_units_seen /\ units.my.workers[1].position = <<2, 1>>

\* ------------------------------------------------------------------------
\* Ticks: attacked units
\* ------------------------------------------------------------------------

\* The order of Option<u32>: None is below every Some.
OptionLess(a, b) ==
    CASE a = None /\ b = None -> FALSE
      [] a = None -> TRUE
      [] b = None -> FALSE
      [] OTHER -> a[1] < b[1]

\* last_units_hits.get(&tag).copied().
LastHitsOf(tag, last) == IF tag \in DOMAIN last THEN Some(last[tag]) ELSE None

\* Unit::is_attacked.
IsAttacked(u, last) == OptionLess(Hits(u), LastHitsOf(u.tag, last))

\* Unit::damage_taken.
DamageTaken(u, last) ==
    IF Hits(u) = None THEN 0
    ELSE IF LastHitsOf(u.tag, last) = None THEN 0
    ELSE IF last[u.tag] > Hits(u)[1] THEN last[u.tag] - Hits(u)[1] ELSE 0

\* An owned Zealot with the given health and shield.
OwnZealot(health, shield) ==
    [WireUnit(1, "Own", "Zealot", <<1, 1>>) EXCEPT !.health = health, !.shield = shield]

\* The observations of the runs over the hits: the Zealot is not reported, or is
\* with each stat not reported, whole or reduced.
HitsObs ==
    {[dead |-> {}, raw |-> RawOf(ws), vis |-> UniformMap("Visible"), effects |-> {}] :
        ws \in {{}} \cup {{OwnZealot(h, s)} : h \in {None, Some(200), Some(161)},
                                                s \in {None, Some(100), Some(0)}}}

HitsNext == \E obs \in HitsObs : UpdateState(obs)

SpecHits == BotInit({"Terran"}) /\ [][HitsNext]_vars

\* C31: a unit is attacked exactly when its hits and the hits recorded for its
\* tag in the previous tick are both known and the current value is lower, which
\* is when damage_taken is positive; a unit of unknown hits is not attacked.
C31_AttackedIffDamaged ==
    \A t \in DOMAIN units.all :
        LET u == units.all[t]
        IN /\ IsAttacked(u, last_units_hits) <=> DamageTaken(u, last_units_hits) > 0
           /\ IsAttacked(u, last_units_hits) <=>
                  /\ Hits(u) # None
                  /\ t \in DOMAIN last_units_hits
                  /\ Hits(u)[1] < last_units_hits[t]
           /\ Hits(u) = None => ~IsAttacked(u, last_units_hits)

\* ------------------------------------------------------------------------
\* Ticks: the cached structures by opponent race
\* ------------------------------------------------------------------------

\* C32: against an opponent that is not Terran the cached structures and
\* townhalls are, after every tick, this tick's enemy structures and townhalls;
\* against a Terran opponent a cached structure or townhall leaves them only
\* when the tick evicts its tag or reports it dead.
C32_MergeByRace ==
    [][game_loop' = game_loop + 1 /\ panic_message' = "none" =>
           IF enemy_race # "Terran"
               THEN /\ units'.cached.structures = units'.enemy.structures
                    /\ units'.cached.townhalls = units'.enemy.townhalls
               ELSE \A c \in {"structures", "townhalls"} :
                        /\ \A t \in DOMAIN units.cached[c] \ DOMAIN units'.cached[c] :
                               \/ t \in gone' \ gone
                               \/ t \in DOMAIN verdicts' /\ verdicts'[t] = "remove"
                        /\ \A t \in DOMAIN units'.enemy[c] :
                               /\ t \in DOMAIN units'.cached[c]
                               /\ units'.cached[c][t] = units'.enemy[c][t]]_vars

\* Against a Terran opponent the cache holds a structure of an earlier tick that
\* the last tick did not report.
C32_Witness ==
    /\ game_loop > 1
    /\ enemy_race = "Terran"
    /\ \E t \in DOMAIN units.cached.structures : t \notin DOMAIN units.enemy.all

\* ------------------------------------------------------------------------
\* prepare_start: the position of a new expansion
\* ------------------------------------------------------------------------

\* The cluster of resources an expansion was made of.
C33_ClusterOf(exp) ==
    resource_groups[CHOOSE i \in DOMAIN resource_groups :
                        {resource_groups[i][k].tag : k \in DOMAIN resource_groups[i]}
                            = Range(exp.minerals) \cup exp.geysers]

\* The squared distance from a position to the resource of the cluster farthest
\* from it.
C33_Farthest(pos, rs) ==
    CHOOSE d \in {PointDistanceSquared(pos, rs[i].pos) : i \in DOMAIN rs} :
        \A i \in DOMAIN rs : PointDistanceSquared(pos, rs[i].pos) <= d

\* The offsets of a cluster that the claim admits: in the ring, on a placeable
\* cell, 6 or more from every mineral and 7 or more from every geyser.
C33_Admitted(rs) ==
    {o \in (-7..7) \X (-7..7) :
        LET pos == <<FlooredCenter(rs)[1] + 2 * o[1], FlooredCenter(rs)[2] + 2 * o[2]>>
        IN /\ 16 < o[1] * o[1] + o[2] * o[2]
           /\ o[1] * o[1] + o[2] * o[2] <= 64
           /\ CellOf(pos) \in placement_grid
           /\ \A i \in DOMAIN rs :
                  PointDistanceSquared(pos, rs[i].pos) >= (IF rs[i].geyser THEN 196 ELSE 144)}

\* The expansions of the list that are at no start location.
C33_NewSites == {i \in DOMAIN expansions : expansions[i].alliance = "Neutral"}

\* C33: the location of an expansion at no start location is the position of an
\* admitted offset from the floored and centred mean of the cluster's resources
\* whose farthest resource is nearest; of several such offsets it is the first
\* one in the order the offsets are generated in.
C33_LocationIsBestCandidate ==
    \A i \in C33_NewSites :
        LET rs == C33_ClusterOf(expansions[i])
            pos(o) == <<FlooredCenter(rs)[1] + 2 * o[1], FlooredCenter(rs)[2] + 2 * o[2]>>
        IN \E o \in C33_Admitted(rs) :
               /\ expansions[i].loc = pos(o)
               /\ \A b \in C33_Admitted(rs) :
                      \/ C33_Farthest(pos(o), rs) < C33_Farthest(pos(b), rs)
                      \/ /\ C33_Farthest(pos(o), rs) = C33_Farthest(pos(b), rs)
                         /\ (o = b \/ o[1] < b[1] \/ (o[1] = b[1] /\ o[2] < b[2]))

\* prepare_start has placed an expansion at no start location for which two
\* admitted offsets have their farthest resource equally near.
C33_Witness ==
    /\ started = "done"
    /\ \E i \in C33_NewSites :
           LET rs == C33_ClusterOf(expansions[i])
               pos(o) == <<FlooredCenter(rs)[1] + 2 * o[1], FlooredCenter(rs)[2] + 2 * o[2]>>
           IN \E b \in C33_Admitted(rs) :
                  /\ pos(b) # expansions[i].loc
                  /\ C33_Farthest(pos(b), rs) = C33_Farthest(expansions[i].loc, rs)

\* ------------------------------------------------------------------------
\* Ticks: burrowed and revealed
\* ------------------------------------------------------------------------

\* An enemy Roach as the game reports it, burrowed or not, in a cloak state.
EnemyRoach(burrowed, cloak) ==
    [WireUnit(3, "Enemy", "Roach", <<3, 3>>) EXCEPT !.is_burrowed = burrowed, !.cloak = cloak]

\* An enemy detector in reach of the owned unit.
EnemyOverseer == [WireUnit(4, "Enemy", "Overseer", <<3, 5>>) EXCEPT !.is_flying = TRUE]

\* The observations of the runs over revealed units: the Roach is reported or
\* not, above ground or burrowed, detected or not, on a visible map; an owned
\* detector and an enemy one are reported or not.
RevealObs ==
    {[dead |-> {},
      raw |-> RawOf(a \cup r \cup o),
      vis |-> UniformMap("Visible"),
      effects |-> {}] :
        a \in Maybe({OwnRaven}),
        o \in Maybe({EnemyOverseer}),
        r \in Maybe({EnemyRoach(FALSE, "NotCloaked"), EnemyRoach(TRUE, "Cloaked"),
                     EnemyRoach(TRUE, "CloakedDetected")})}

RevealNext == \E obs \in RevealObs : UpdateState(obs)

SpecReveal == BotInit({"Zerg"}) /\ [][RevealNext]_vars

\* C34: no unit of a tick is burrowed and revealed, an enemy unit is revealed
\* only as from_proto made it, and no tick puts a reported enemy on the cloaked
\* list.
C34_NeverBurrowedAndRevealed ==
    [][\A obs \in RevealObs :
           UpdateState(obs) =>
               /\ \A t \in DOMAIN units'.all :
                      ~(units'.all[t].is_burrowed /\ units'.all[t].is_revealed)
               /\ \A t \in DOMAIN units'.enemy.all :
                      /\ units'.enemy.all[t].is_revealed = FromProto(obs.vis, obs.raw[t]).is_revealed
                      /\ units'.cached.all[t] = units'.enemy.all[t]
               /\ \A t \in DOMAIN verdicts' : verdicts'[t] # "cloaked"]_vars

\* A tick has reported the Roach burrowed and detected while no owned detector
\* covers it, after a tick in which it was above ground.
C34_Witness ==
    /\ game_loop > 1
    /\ 3 \in DOMAIN units.enemy.all
    /\ units.enemy.all[3].is_burrowed
    /\ 1 \notin DOMAIN units.my.all
    /\ 3 \in DOMAIN last_units_seen
    /\ verdicts[3] = "keep"

\* ------------------------------------------------------------------------
\* Ticks: a cached tag that changes its type
\* ------------------------------------------------------------------------

\* The enemy of tag 3 as a tick reports it: a Drone, or the Extractor it has
\* become.
EnemyMorph ==
    {WireUnit(3, "Enemy", "Drone", <<3, 3>>),
     WireUnit(3, "Enemy", "Drone", <<3, 4>>),
     [WireUnit(3, "Enemy", "Extractor", <<3, 4>>) EXCEPT !.build_progress = 5],
     [WireUnit(3, "Enemy", "Extractor", <<3, 4>>) EXCEPT !.build_progress = 100]}

\* The observations of the runs over a morphing tag, on a visible or hidden map,
\* with or without an owned detector.
MorphObs ==
    {[dead |-> {},
      raw |-> RawOf(a \cup m),
      vis |-> UniformMap(v),
      effects |-> {}] :
        v \in {"Visible", "Hidden"},
        a \in Maybe({OwnRaven}),
        m \in Maybe(EnemyMorph)}

\* Ticks of these runs; an enemy is reported only where the map is visible.
MorphNext ==
    \E obs \in MorphObs :
        /\ \A t \in DOMAIN obs.raw :
               obs.raw[t].alliance = "Enemy" => IsVisibleAt(obs.vis, obs.raw[t].pos)
        /\ UpdateState(obs)

SpecMorph == BotInit({"Zerg"}) /\ [][MorphNext]_vars

\* C35: every tag of the cached units and workers is in cached.all, with the
\* snapshot cached.all holds for it; the cached units and structures share no tag.
C35_CacheSubsAgreeWithAll ==
    /\ \A c \in {"units", "workers"} :
           \A t \in DOMAIN units.cached[c] :
               /\ t \in DOMAIN units.cached.all
               /\ units.cached[c][t] = units.cached.all[t]
    /\ DOMAIN units.cached.units \cap DOMAIN units.cached.structures = {}

\* ------------------------------------------------------------------------
\* Ticks: owned structures that die or come back
\* ------------------------------------------------------------------------

\* The observations of the runs over constructions: the worker and the structure,
\* under construction or complete, are reported or not, and either may be in
\* the removed-tag list.
BuildObs ==
    {[dead |-> d,
      raw |-> RawOf(a \cup b),
      vis |-> UniformMap("Visible"),
      effects |-> {}] :
        d \in {{}, {1}, {2}},
        a \in Maybe({OwnWorker}),
        b \in Maybe({OwnBarracks(40), OwnBarracks(70), OwnBarracks(100)})}

BuildNext == \E obs \in BuildObs : UpdateState(obs)

SpecBuild == BotInit({"Terran"}) /\ [][BuildNext]_vars

\* C36: after every tick under_construction is a subset of owned_tags; a tag new
\* to under_construction is new to owned_tags, and a tag of the removed-tag list
\* is in neither.
C36_UnderConstructionIsOwned ==
    [][/\ under_construction' \subseteq owned_tags'
       /\ under_construction' \ under_construction \subseteq owned_tags' \ owned_tags
       /\ (gone' \ gone) \cap (owned_tags' \cup under_construction') = {}]_vars

\* The structure was reported dead while it was under construction.
C36_Witness ==
    /\ 2 \in gone
    /\ <<"ConstructionStarted", 2>> \in emitted
    /\ <<"ConstructionComplete", 2>> \notin emitted
    /\ \E i \in DOMAIN events : events[i].kind = "UnitDestroyed" /\ events[i].tag = 2
    /\ 1 \in under_construction \cup owned_tags


\* The kinds of event that announce a tag: UnitCreated, ConstructionStarted, and
\* ConstructionComplete for a tag no earlier event announced.
C37_Creations(evs) ==
    {i \in DOMAIN evs :
        \/ evs[i].kind \in {"UnitCreated", "ConstructionStarted"}
        \/ /\ evs[i].kind = "ConstructionComplete"
           /\ <<"ConstructionStarted", evs[i].tag>> \notin emitted
           /\ <<"UnitCreated", evs[i].tag>> \notin emitted}

\* C37: the events of a tick announce a tag at most once, and only a tag that no
\* earlier tick announced; they hold ConstructionComplete for a tag at most once,
\* and only for a tag no earlier tick completed.
C37_AtMostOneCreationAndCompletion ==
    /\ \A i \in C37_Creations(events) :
           /\ \A k \in {"UnitCreated", "ConstructionStarted", "ConstructionComplete"} :
                  <<k, events[i].tag>> \notin emitted
           /\ \A j \in C37_Creations(events) : events[j].tag = events[i].tag => j = i
    /\ \A i \in DOMAIN events :
           events[i].kind = "ConstructionComplete"
               => /\ <<"ConstructionComplete", events[i].tag>> \notin emitted
                  /\ \A j \in DOMAIN events :
                         events[j].kind = "ConstructionComplete" /\ events[j].tag = events[i].tag
                             => j = i

\* The structure, seen under construction, then missing from a tick, is complete
\* in the tick that reports it again.
C37_Witness ==
    /\ <<"ConstructionStarted", 2>> \in emitted
    /\ \E i \in DOMAIN events : events[i].kind = "ConstructionComplete" /\ events[i].tag = 2
    /\ 2 \notin DOMAIN last_units_seen

\* ------------------------------------------------------------------------
\* Ticks: the partition of the collections
\* ------------------------------------------------------------------------

\* The neutral units of the map, one of every kind.
NeutralKinds ==
    {WireUnit(5, "Neutral", "MineralField", <<3, 1>>),
     WireUnit(6, "Neutral", "VespeneGeyser", <<0, 3>>),
     WireUnit(7, "Neutral", "XelNagaTower", <<4, 4>>),
     WireUnit(8, "Neutral", "InhibitorZoneSmall", <<5, 5>>),
     WireUnit(10, "Neutral", "Rocks", <<6, 6>>)}

\* The observations of the runs over the kinds of unit: an owned unit and an
\* owned structure of some kind are reported or not, with the neutral units of
\* the map or without.
KindObs ==
    {[dead |-> {},
      raw |-> RawOf(a \cup b \cup n),
      vis |-> UniformMap("Visible"),
      effects |-> {}] :
        a \in Maybe({OwnUnit("SCV"), OwnUnit("Larva"), OwnUnit("Marine")}),
        b \in Maybe({OwnStructure("CommandCenter", "Visible", 100),
                     OwnStructure("Refinery", "Visible", 100),
                     OwnStructure("Barracks", "Visible", 40),
                     OwnStructure("Barracks", "Placeholder", 0)}),
        n \in {{}, NeutralKinds}}

KindsNext == \E obs \in KindObs : UpdateState(obs)

SpecKinds == BotInit({"Terran"}) /\ [][KindsNext]_vars

\* The tags of the neutral units of the tick.
C38_Neutral == {t \in DOMAIN units.all : units.all[t].alliance = "Neutral"}

\* C38: of the owned collections units, structures and placeholders are pairwise
\* disjoint and make up my.all, townhalls and gas_buildings lie in structures,
\* workers and larvas are disjoint and lie in units; every neutral unit is in
\* exactly one of watchtowers, resources, inhibitor_zones and destructables, and
\* resources is the disjoint union of mineral_fields and vespene_geysers.
C38_CollectionsPartition ==
    LET my == [c \in DOMAIN units.my |-> DOMAIN units.my[c]]
        kinds == <<DOMAIN units.watchtowers, DOMAIN units.resources,
                   DOMAIN units.inhibitor_zones, DOMAIN units.destructables>>
    IN /\ my.units \cap my.structures = {}
       /\ my.units \cap my.placeholders = {}
       /\ my.structures \cap my.placeholders = {}
       /\ my.units \cup my.structures \cup my.placeholders = my.all
       /\ my.townhalls \cup my.gas_buildings \subseteq my.structures
       /\ my.workers \cup my.larvas \subseteq my.units
       /\ my.workers \cap my.larvas = {}
       /\ \A t \in C38_Neutral : Cardinality({k \in 1..4 : t \in kinds[k]}) = 1
       /\ \A k \in 1..4 : kinds[k] \subseteq C38_Neutral
       /\ DOMAIN units.resources = DOMAIN units.mineral_fields \cup DOMAIN units.vespene_geysers
       /\ DOMAIN units.mineral_fields \cap DOMAIN units.vespene_geysers = {}

\* A tick has reported an owned worker, an owned placeholder and the neutral
\* units of every kind.
C38_Witness ==
    /\ DOMAIN units.my.workers = {1}
    /\ DOMAIN units.my.placeholders = {2}
    /\ Cardinality(C38_Neutral) = 5
    /\ DOMAIN units.resources = {5, 6}


\* C39: a tick whose removed-tag list holds an owned tag leaves the tag in none
\* of owned_tags, under_construction, available_frames, last_units_hits and
\* last_units_seen.
C39_DeadOwnedTagIsForgotten ==
    [][\A t \in (gone' \ gone) \cap owned_tags :
           /\ t \notin owned_tags'
           /\ t \notin under_construction'
           /\ t \notin available_frames'
           /\ t \notin DOMAIN last_units_hits'
           /\ t \notin DOMAIN last_units_seen']_vars

\* ------------------------------------------------------------------------
\* Resources and supply
\* ------------------------------------------------------------------------

\* A subtraction that goes below zero. The counters are u32; their values in the
\* runs stay far below 2^32, so that no addition overflows.
PlainSub(a, b) == a - b

\* u32::saturating_sub.
SaturatingSub(a, b) == IF a > b THEN a - b ELSE 0

\* cost.supply as u32: a float, in halves, cut to an integer; the cast of a
\* negative float gives 0.
SupplyAsU32(supply) == IF supply < 0 THEN 0 ELSE supply \div 2

\* observation.common of the runs: the bank is empty or not, the supply is below,
\* at or above its cap.
Commons ==
    [minerals : {0, 100}, vespene : {0, 25}, food_cap : {15, 200}, food_used : {14, 15, 17}]

\* The costs get_unit_cost returns in the runs; the supply is 0, 0.5, 1 or 6.
Costs == [minerals : {50, 150}, vespene : {0, 100}, supply : {0, 1, 2, 12}]

\* Bot::prepare_step: the counters are taken from the observation.
PrepareStep(common) ==
    /\ spendings < MaxCalls
    /\ spendings' = spendings + 1
    /\ minerals' = common.minerals
    /\ vespene' = common.vespene
    /\ supply_cap' = common.food_cap
    /\ supply_used' = common.food_used
    /\ supply_left' = SaturatingSub(common.food_cap, common.food_used)
    /\ UNCHANGED <<cmdVars, tickVars, prepVars, protoVars>>

\* Bot::subtract_resources.
SubtractResources(cost, subtract_supply) ==
    /\ spendings < MaxCalls
    /\ spendings' = spendings + 1
    /\ minerals' = SaturatingSub(minerals, cost.minerals)
    /\ vespene' = SaturatingSub(vespene, cost.vespene)
    /\ IF subtract_supply
           THEN /\ supply_used' = supply_used + SupplyAsU32(cost.supply)
                /\ supply_left' = SaturatingSub(supply_left, SupplyAsU32(cost.supply))
           ELSE UNCHANGED <<supply_used, supply_left>>
    /\ UNCHANGED supply_cap
    /\ UNCHANGED <<cmdVars, tickVars, prepVars, protoVars>>

SpendNext ==
    \/ \E common \in Commons : PrepareStep(common)
    \/ \E cost \in Costs, subtract_supply \in BOOLEAN : SubtractResources(cost, subtract_supply)

SpecSpend == BotInit({"Terran"}) /\ [][SpendNext]_vars

\* C40: after prepare_step and after every subtract_resources, with supply or not,
\* supply_left is supply_cap - supply_used, or 0 where that is negative, and
\* minerals, vespene and supply_left are not below zero.
C40_SupplyLeftIsCapMinusUsed ==
    [][/\ supply_left' = (IF supply_cap' > supply_used' THEN supply_cap' - supply_used' ELSE 0)
       /\ minerals' >= 0 /\ vespene' >= 0 /\ supply_left' >= 0]_vars

\* A unit was paid for whose cost in minerals and in supply exceeded what was
\* left, after one that the supply still covered.
C40_Witness ==
    /\ spendings > 2
    /\ supply_cap = 15
    /\ supply_used = 21
    /\ supply_left = 0
    /\ minerals = 0
    /\ vespene = 25

\* ------------------------------------------------------------------------
\* The command queue on its own
\* ------------------------------------------------------------------------

CmdNext ==
    \/ \E r \in Routines : IssueCall(r)
    \/ \E r \in Routines : AcquireLock(r)
    \/ \E r \in Routines : Entry(r)
    \/ \E r \in Routines : Push(r)
    \/ \E r \in Routines : ReleaseLock(r)
    \/ GetActionsLock
    \/ GetActionsCommands
    \/ GetActionsAutocast
    \/ GetActionsReturn
    \/ ClearActions

SpecCommander == BotInit({"Zerg"}) /\ [][CmdNext]_vars

\* ------------------------------------------------------------------------
\* Claims about the command batching queue
\* ------------------------------------------------------------------------

\* The actions appended by the running (or last) get_actions call.
Batch == SubSeq(actions, batchStart + 1, Len(actions))

\* The actions of batch b built from key k of the map of the given kind.
ActionsFor(b, kind, k) ==
    {i \in DOMAIN b : ActionOfCall(b[i], [kind |-> kind, key |-> k, tag |-> 0])}

\* Every routine and the driver are outside of their calls.
AllReturned == dpc = "idle" /\ \A r \in Routines : pc[r] = "idle"

\* C1: (stated as claimed) a tag issued several times under one
\* (ability, target, queue) key in one tick occurs exactly once in the
\* UnitCommand action that get_actions produces for that key.
C1_TagOncePerKey ==
    \A i \in DOMAIN actions :
        actions[i].type = "UnitCommand" =>
            \A t \in CmdTags : Count(actions[i].units, t) <= 1

\* C2: when get_actions is about to return, the batch it appended holds
\* exactly one UnitCommand action per distinct key and one ToggleAutocast
\* action per distinct ability issued since the last flush, every issued tag
\* is carried by the action of its key, and both commander maps are empty.
C2_FlushOnePerKeyAllTags ==
    dpc = "return" =>
        /\ commands = EmptyMap
        /\ autocast = EmptyMap
        /\ \A k \in CmdKeys :
               Cardinality(ActionsFor(Batch, "command", k)) =
                   (IF \E t \in CmdTags : pending[[kind |-> "command", key |-> k, tag |-> t]] > 0
                       THEN 1 ELSE 0)
        /\ \A k \in AutocastKeys :
               Cardinality(ActionsFor(Batch, "autocast", k)) =
                   (IF \E t \in CmdTags : pending[[kind |-> "autocast", key |-> k, tag |-> t]] > 0
                       THEN 1 ELSE 0)
        /\ \A c \in Calls : InBatch(Batch, c) = pending[c]

\* C2 witness: a flush that returns a UnitCommand carrying two tags together
\* with a ToggleAutocast action.
C2_Witness ==
    /\ dpc = "return"
    /\ \E i, j \in DOMAIN Batch :
           /\ Batch[i].type = "UnitCommand" /\ Len(Batch[i].units) = 2
           /\ Batch[j].type = "ToggleAutocast"

\* C3: once all concurrently issued calls have returned (and no flush is
\* running), every (key, tag) insert made since the last flush is in the
\* commander's bucket for its key, as often as it was issued.
C3_NoInsertLost ==
    AllReturned => \A c \in Calls : InBucket(c) = pending[c]

\* C3 witness: two calls that overlapped in time on the same key have both
\* returned.
C3_Witness ==
    /\ AllReturned
    /\ overlap.calls
    /\ \E k \in CmdKeys :
           /\ pending[[kind |-> "command", key |-> k, tag |-> 1]] = 1
           /\ pending[[kind |-> "command", key |-> k, tag |-> 2]] = 1

\* C4: every completed insert is in exactly one place: the commander's bucket
\* (kept for the next flush), the batch returned by a flush, or a batch already
\* handed over; it is never lost and never in two of them.
C4_DrainAtomic ==
    \A c \in Calls : done[c] = InBucket(c) + InBatch(actions, c) + sent[c]

\* C4 witness: calls overlapped with a flush; one insert went out with the
\* batch and another one is retained in the queue.
C4_Witness ==
    /\ overlap.flush
    /\ AllReturned
    /\ \E c, d \in Calls : InBatch(actions, c) = 1 /\ InBucket(d) = 1 /\ done[c] + done[d] = 2

====
